---- MODULE Spec2Model ----
(***************************************************************************)
(* Location-scouting backend: the bounded-concurrency grounding pool       *)
(* (GroundingAgent.process_scenes), the SSE grounding stream               *)
(* (ground_scenes_stream), the streaming script analysis                   *)
(* (process_locations_streaming / analyze_script) and the four-pass        *)
(* location deduplication (deduplicate_locations_with_llm).                *)
(*                                                                         *)
(* One entry point runs per behaviour; `mode` says which.  Scores are kept *)
(* in thousandths (1000 = 1.0) so that the float arithmetic of the source  *)
(* is exact on the values used here.                                       *)
(***************************************************************************)
EXTENDS Integers, Sequences, FiniteSets, TLC

VARIABLES
    mode,              \* which entry point this behaviour runs
    \* ---- GroundingAgent.process_scenes ----
    requirements,      \* list of LocationRequirement (their ids)
    max_concurrent,    \* the concurrency bound passed by the caller
    verify_visuals,    \* the verify_visuals argument
    semaphore,         \* free permits of asyncio.Semaphore(max_concurrent)
    task,              \* per requirement: position of process_with_limit and its value
    returned,          \* what each requirement's external call returned (history)
    final_results,     \* the list process_scenes returns
    pool_pc,           \* position of process_scenes itself
    \* ---- ground_scenes_stream.event_stream ----
    scene_ids,         \* request.scene_ids
    parallel_workers,  \* request.parallel_workers
    missing,           \* scenes scene_repo.get no longer finds while loading
    stream_pc,         \* position of the generator event_stream
    scene_queue,       \* asyncio.Queue of scene ids
    result_queue,      \* asyncio.Queue of (event_type, data)
    scenes_data,       \* keys of the dict scenes_data
    processed_count,   \* processed_count[0]
    all_candidates,    \* len(all_candidates)
    workers,           \* the grounding_worker tasks: position and current scene
    events,            \* the SSE events yielded so far, in order
    call_failed,       \* scenes whose external call raised (history)
    \* ---- process_locations_streaming under analyze_script.event_generator ----
    total_locations,   \* len(locations)
    llm_max_concurrent, \* max_concurrent of process_locations_streaming
    llm_semaphore,     \* free permits of its semaphore
    llm_task,          \* the process_single tasks: position and attempt
    llm_queue,         \* asyncio.Queue of (idx, result or exception)
    completed,         \* completed of process_locations_streaming
    llm_pc,            \* position of the generator and of the loop consuming it
    script_processed,  \* processed_count of analyze_script
    script_events,     \* the events analyze_script yielded so far
    \* ---- deduplicate_locations_with_llm ----
    input_locations,   \* the list the function was given (history)
    locations,         \* the local variable locations
    needs_context,     \* headers the name pass flagged
    dedup_pc,          \* the pass that runs next
    dedup_calls,       \* the external calls made so far and how each ended (history)
    \* ---- _normalize_header_for_matching, applied to a header and to its key ----
    norm_header,       \* the header given
    normalized,        \* its key
    renormalized,      \* the key of its key
    norm_pc,
    \* ---- _calculate_match_score on one candidate ----
    score_candidate,   \* the candidate given
    score_value,       \* the score returned, in thousandths
    score_pc,
    \* ---- find_and_verify_locations on one requirement ----
    fv_response,       \* what the find-candidates call did
    fv_verify_visuals, \* the verify_visuals argument
    fv_candidates,     \* result.candidates as find_locations left it
    fv_outcomes,       \* what the vision provider did, per candidate
    fv_verified,       \* the list verify_candidates_visual returned
    fv_pc,             \* "find", "verify", "done" or "raised"
    \* ---- the candidates' lifecycle: creation, calls, webhooks, review ----
    lc_candidates,     \* every candidate created so far, by id
    lc_inflight,       \* ids whose trigger_call awaits the answer to POST /call
    lc_posted,         \* ids for which a POST /call was sent
    lc_unsaved,        \* ids whose create_many raised
    \* ---- one stored row of location_candidates and the handlers writing it ----
    cand_row,          \* the row
    cand_now,          \* what the clock reads
    cand_posts,        \* how many POST /call requests were sent for the row
    cand_pending,      \* the requests among them not answered yet
    cand_last          \* the handler that ran last

poolVars == <<requirements, max_concurrent, verify_visuals, semaphore, task,
              returned, final_results, pool_pc>>

streamVars == <<scene_ids, parallel_workers, missing, stream_pc,
                scene_queue, result_queue, scenes_data, processed_count,
                all_candidates, workers, events, call_failed>>

llmVars == <<total_locations, llm_max_concurrent, llm_semaphore, llm_task,
             llm_queue, completed, llm_pc, script_processed, script_events>>

dedupVars == <<input_locations, locations, needs_context, dedup_pc, dedup_calls>>
normVars == <<norm_header, normalized, renormalized, norm_pc>>
scoreVars == <<score_candidate, score_value, score_pc>>
verifyVars == <<fv_response, fv_verify_visuals, fv_candidates, fv_outcomes,
                fv_verified, fv_pc>>
lifecycleVars == <<lc_candidates, lc_inflight, lc_posted, lc_unsaved>>
rowVars == <<cand_row, cand_now, cand_posts, cand_pending, cand_last>>

vars == <<mode, poolVars, streamVars, llmVars, dedupVars, normVars, scoreVars, verifyVars, lifecycleVars, rowVars>>

\* what the steps of one entry point leave alone
notPool == <<streamVars, llmVars, dedupVars, normVars, scoreVars, verifyVars, lifecycleVars, rowVars>>
notStream == <<poolVars, llmVars, dedupVars, normVars, scoreVars, verifyVars, lifecycleVars, rowVars>>
notLlm == <<poolVars, streamVars, dedupVars, normVars, scoreVars, verifyVars, lifecycleVars, rowVars>>
notDedup == <<poolVars, streamVars, llmVars, normVars, scoreVars, verifyVars, lifecycleVars, rowVars>>
notNorm == <<poolVars, streamVars, llmVars, dedupVars, scoreVars, verifyVars, lifecycleVars, rowVars>>
notScore == <<poolVars, streamVars, llmVars, dedupVars, normVars, verifyVars, lifecycleVars, rowVars>>
notVerify == <<poolVars, streamVars, llmVars, dedupVars, normVars, scoreVars, lifecycleVars, rowVars>>
notLifecycle == <<poolVars, streamVars, llmVars, dedupVars, normVars, scoreVars, verifyVars, rowVars>>
notRow == <<poolVars, streamVars, llmVars, dedupVars, normVars, scoreVars, verifyVars, lifecycleVars>>

---------------------------------------------------------------------------
(* Bounds of the model *)

MaxReqs == 3          \* longest requirement list handed to process_scenes
MaxConcurrent == 2    \* largest max_concurrent tried
MaxScenes == 2        \* longest request.scene_ids
MaxWorkers == 2       \* largest request.parallel_workers tried
MaxLocations == 3     \* longest location list handed to process_locations_streaming
MaxDedup == 3         \* longest location list handed to deduplicate_locations_with_llm
MaxMerged == 2        \* most headers the name pass's answer maps to a canonical one
MaxTokens == 4        \* longest header handed to _normalize_header_for_matching alone
MaxCandidates == 2    \* most candidates followed through their lifecycle
MaxVenues == 3        \* longest venue list one find-candidates call returns
MaxClock == 2         \* latest reading of the clock in the model of one row
MaxCalls == 2         \* most POST /call requests sent for one row
MaxFlags == 3         \* most red flags of a candidate handed to _calculate_match_score alone

---------------------------------------------------------------------------
(* Sequence helpers *)

Range(s) == {s[i] : i \in 1..Len(s)}

Take(s, n) == IF n >= Len(s) THEN s ELSE SubSeq(s, 1, n)

Min2(a, b) == IF a <= b THEN a ELSE b

\* insertion that puts c before the elements whose score equals its own
InsertDesc_before_ties(sorted, c) ==
    LET k == Cardinality({i \in 1..Len(sorted) : sorted[i].match_score > c.match_score})
    IN  SubSeq(sorted, 1, k) \o <<c>> \o SubSeq(sorted, k + 1, Len(sorted))

RECURSIVE InsertDesc(_, _)
\* stable insertion of c into a list already sorted by descending match_score:
\* c goes after every element whose score is >= its own, as list.sort does.
InsertDesc(sorted, c) ==
    IF sorted = <<>> THEN <<c>>
    ELSE IF Head(sorted).match_score >= c.match_score
         THEN <<Head(sorted)>> \o InsertDesc(Tail(sorted), c)
         ELSE <<c>> \o sorted

RECURSIVE SortByScoreDesc(_)
\* candidates.sort(key=lambda c: c.match_score, reverse=True)
SortByScoreDesc(s) ==
    IF s = <<>> THEN <<>>
    ELSE InsertDesc(SortByScoreDesc(SubSeq(s, 1, Len(s) - 1)), s[Len(s)])

---------------------------------------------------------------------------
(* Candidates: parse_response and _calculate_match_score *)

\* What the external find-candidates call can put in its JSON array.
RawVenues ==
    { [venue_name |-> "v1", phone_number |-> TRUE,  match_reasoning |-> TRUE,
       google_rating |-> 45, google_review_count |-> 120, website_url |-> TRUE,
       potential_concerns |-> <<>>, photo |-> TRUE],
      [venue_name |-> "v2", phone_number |-> FALSE, match_reasoning |-> TRUE,
       google_rating |-> 35, google_review_count |-> 10, website_url |-> FALSE,
       potential_concerns |-> <<"Limited parking">>, photo |-> FALSE],
      [venue_name |-> "v3", phone_number |-> TRUE,  match_reasoning |-> FALSE,
       google_rating |-> 0, google_review_count |-> 0, website_url |-> FALSE,
       potential_concerns |-> <<>>, photo |-> TRUE],
      [venue_name |-> "v4", phone_number |-> TRUE,  match_reasoning |-> FALSE,
       google_rating |-> 0, google_review_count |-> 0, website_url |-> FALSE,
       potential_concerns |-> <<>>, photo |-> FALSE] }

RawVenue(n) == CHOOSE v \in RawVenues : v.venue_name = n

NoPhoneFlag == "Phone number not available in listing"

\* _calculate_match_score with the review count tested inside the 4.0 tier
_calculate_match_score_nested_tier(c) ==
    LET phone   == IF c.phone_number THEN 250 ELSE 0
        reason  == IF c.match_reasoning THEN 250 ELSE 0
        rating  == IF c.google_rating = 0 THEN 0
                   ELSE IF c.google_rating >= 40
                        THEN (IF c.google_review_count >= 50 THEN 250 ELSE 0)
                   ELSE IF c.google_rating >= 35 THEN 150
                   ELSE IF c.google_rating >= 30 THEN 100
                   ELSE 0
        website == IF c.website_url THEN 100 ELSE 0
        flags   == IF Len(c.red_flags) = 0 THEN 150
                   ELSE IF Len(c.red_flags) = 1 THEN 100
                   ELSE 0
    IN  Min2(phone + reason + rating + website + flags, 1000)

\* _calculate_match_score, in thousandths; google_rating is in tenths, 0 = None
_calculate_match_score(c) ==
    LET phone   == IF c.phone_number THEN 250 ELSE 0
        reason  == IF c.match_reasoning THEN 250 ELSE 0
        rating  == IF c.google_rating = 0 THEN 0
                   ELSE IF c.google_rating >= 40 /\ c.google_review_count >= 50 THEN 250
                   ELSE IF c.google_rating >= 35 THEN 150
                   ELSE IF c.google_rating >= 30 THEN 100
                   ELSE 0
        website == IF c.website_url THEN 100 ELSE 0
        flags   == IF Len(c.red_flags) = 0 THEN 150
                   ELSE IF Len(c.red_flags) = 1 THEN 100
                   ELSE 0
    IN  Min2(phone + reason + rating + website + flags, 1000)

\* One element of the loop of parse_response: build the candidate, take the
\* concerns as red flags, score it, then set the status from the phone number.
\* The fields class LocationCandidate declares, of those the model follows
\* (photo stands for a non-empty photo_urls).  The class sets no model_config,
\* so assigning any other attribute raises ValueError and reading one raises
\* AttributeError.
LocationCandidateFields ==
    {"scene_id", "venue_name", "phone_number", "website_url", "google_rating",
     "google_review_count", "photo_urls", "match_score", "match_reasoning",
     "vapi_call_status", "red_flags", "status"}

Declared(field) == field \in LocationCandidateFields

ParseCandidate(loc, req_id) ==
    LET c0 == [scene_id |-> req_id,
               venue_name |-> loc.venue_name,
               phone_number |-> loc.phone_number,
               match_reasoning |-> loc.match_reasoning,
               google_rating |-> loc.google_rating,
               google_review_count |-> loc.google_review_count,
               website_url |-> loc.website_url,
               red_flags |-> loc.potential_concerns,
               photo |-> loc.photo,
               match_score |-> 0,
               status |-> "discovered",
               vapi_call_status |-> "not_initiated"]
        c1 == [c0 EXCEPT !.match_score = _calculate_match_score(c0)]
    IN  IF c1.phone_number
        THEN c1
        ELSE [c1 EXCEPT !.vapi_call_status = "no_phone_number",
                        !.status = "human_review",
                        !.red_flags = Append(@, NoPhoneFlag)]

parse_response(locations_data, req_id) ==
    [i \in 1..Len(locations_data) |-> ParseCandidate(locations_data[i], req_id)]

\* LocationRequirement.max_results / GroundScenesRequest.max_results default
max_results == 10

\* What the external find-candidates call does: raises, returns an empty text,
\* or returns a JSON array of venues.
Responses ==
    { [kind |-> "raise", venues |-> <<>>],
      [kind |-> "empty", venues |-> <<>>],
      [kind |-> "json",  venues |-> <<>>],
      [kind |-> "json",  venues |-> <<RawVenue("v1")>>],
      [kind |-> "json",  venues |-> <<RawVenue("v2"), RawVenue("v1")>>] }

\* GroundingAgent.find_locations: the GroundingResult for one requirement,
\* given what the external call did.
find_locations(req_id, resp) ==
    IF resp.kind = "raise"
    THEN [scene_id |-> req_id, candidates |-> <<>>, errors |-> <<"call failed">>]
    ELSE IF resp.kind = "empty"
    THEN [scene_id |-> req_id, candidates |-> <<>>,
          errors |-> <<"Gemini returned empty response">>]
    ELSE [scene_id |-> req_id,
          candidates |-> Take(SortByScoreDesc(parse_response(resp.venues, req_id)),
                              max_results),
          errors |-> <<>>]

---------------------------------------------------------------------------
(* Visual verification: verify_visual_vibe and verify_candidates_visual *)

\* What the vision provider does for one candidate: nothing usable (no
\* credentials, failed fetch, failed call, no JSON) or a JSON verdict.
VisualOutcomes ==
    { [kind |-> "none", score |-> 0,    concerns |-> <<>>],
      [kind |-> "json", score |-> 1000, concerns |-> <<>>],
      [kind |-> "json", score |-> 0,    concerns |-> <<"Looks too modern">>] }

VisualFlag(concern) ==
    IF concern = "Looks too modern" THEN "Visual: Looks too modern"
    ELSE "Visual: other"

RECURSIVE AppendConcerns(_, _)
\* for concern in visual_concerns: if concern not in red_flags: append("Visual: ...")
AppendConcerns(flags, concerns) ==
    IF concerns = <<>> THEN flags
    ELSE AppendConcerns(IF Head(concerns) \in Range(flags) THEN flags
                        ELSE Append(flags, VisualFlag(Head(concerns))),
                        Tail(concerns))

\* candidate.match_score * 0.6 + candidate.visual_vibe_score * 0.4
BlendScore(match_score, visual) == (6 * match_score + 4 * visual) \div 10

\* verify_visual_vibe: no photo, no image, no credentials or no JSON return the
\* candidate as it is.  With a JSON verdict the first statement is
\* candidate.visual_vibe_score = ...: on an undeclared field it raises, the
\* except Exception around the block logs it, and the candidate is returned
\* untouched; otherwise the concerns are appended and the score is blended.
verify_visual_vibe(c, out) ==
    IF ~c.photo \/ out.kind = "none" THEN c
    ELSE IF ~Declared("visual_vibe_score") THEN c
    ELSE [c EXCEPT !.red_flags = AppendConcerns(@, out.concerns),
                   !.match_score = BlendScore(@, out.score)]

verify_candidates_visual(cands, outs) ==
    SortByScoreDesc([i \in 1..Len(cands) |-> verify_visual_vibe(cands[i], outs[i])])

\* After the visual pass find_and_verify_locations counts the candidates with
\* c.visual_vibe_score < 0.5, outside any try: reading the attribute of the
\* first candidate raises when the class does not declare it.
LowVisualCountRaises(cands) == cands # <<>> /\ ~Declared("visual_vibe_score")

\* find_and_verify_locations goes on to the visual pass only when asked to and
\* when some candidate has a photo.
NeedsVisualPass(flag, result) ==
    flag /\ \E i \in 1..Len(result.candidates) : result.candidates[i].photo

---------------------------------------------------------------------------
(* GroundingAgent.process_scenes *)

\* LocationRequirement.id of the i-th requirement (a uuid: unrelated to i)
ReqId(i) == 100 + 7 * i

NoResult == [scene_id |-> 0, candidates |-> <<>>, errors |-> <<>>]
NoResponse == [kind |-> "pending", venues |-> <<>>]

\* a semaphore that never blocks
SemaphoreFree_never_blocks(permits) == TRUE

\* asyncio.Semaphore: acquire succeeds while a permit is free
SemaphoreFree(permits) == permits > 0

\* tasks are created in list order and the semaphore wakes waiters first-in
\* first-out, so requirement i acquires once every earlier one has
NextWaiting(i) == task[i].pc = "waiting" /\ \A j \in 1..(i - 1) : task[j].pc # "waiting"

InsideProcessSingleScene == {i \in DOMAIN task : task[i].pc \in {"find", "verify"}}

\* the loop after gather(return_exceptions=True): an exception becomes an
\* error result for requirements[i], anything else is passed through
AssembleResults(reqs, tasks) ==
    [i \in 1..Len(reqs) |->
        IF tasks[i].pc = "raised"
        THEN [scene_id |-> reqs[i], candidates |-> <<>>, errors |-> <<"exception">>]
        ELSE tasks[i].result]

InitPool ==
    /\ mode = "pool"
    /\ \E n \in 0..MaxReqs : requirements = [i \in 1..n |-> ReqId(i)]
    /\ max_concurrent \in 1..MaxConcurrent
    /\ verify_visuals \in BOOLEAN
    /\ semaphore = max_concurrent
    /\ task = [i \in 1..Len(requirements) |-> [pc |-> "waiting", result |-> NoResult]]
    /\ returned = [i \in 1..Len(requirements) |-> NoResponse]
    /\ final_results = <<>>
    /\ pool_pc = "gather"

IdlePool ==
    /\ requirements = <<>>
    /\ max_concurrent = 0
    /\ verify_visuals = FALSE
    /\ semaphore = 0
    /\ task = <<>>
    /\ returned = <<>>
    /\ final_results = <<>>
    /\ pool_pc = "off"

\* async with semaphore: enter _process_single_scene and issue the external call
PoolAcquire(i) ==
    /\ pool_pc = "gather"
    /\ NextWaiting(i)
    /\ SemaphoreFree(semaphore)
    /\ semaphore' = semaphore - 1
    /\ task' = [task EXCEPT ![i].pc = "find"]
    /\ UNCHANGED notPool
    /\ UNCHANGED <<mode, requirements, max_concurrent, verify_visuals, returned,
                   final_results, pool_pc>>

\* the external call returns or raises; find_locations builds the result and
\* either the visual pass starts or the unit ends and releases its permit
PoolFindReturn(i, resp) ==
    /\ pool_pc = "gather"
    /\ task[i].pc = "find"
    /\ LET result == find_locations(requirements[i], resp)
       IN  IF NeedsVisualPass(verify_visuals, result)
           THEN /\ task' = [task EXCEPT ![i] = [pc |-> "verify", result |-> result]]
                /\ UNCHANGED semaphore
           ELSE /\ task' = [task EXCEPT ![i] = [pc |-> "done", result |-> result]]
                /\ semaphore' = semaphore + 1
    /\ returned' = [returned EXCEPT ![i] = resp]
    /\ UNCHANGED notPool
    /\ UNCHANGED <<mode, requirements, max_concurrent, verify_visuals,
                   final_results, pool_pc>>

\* the sequential visual pass over the candidates ends and the low-score count
\* is taken (or raises out of the unit); the unit releases its permit
PoolVerifyReturn(i, outs) ==
    /\ pool_pc = "gather"
    /\ task[i].pc = "verify"
    /\ LET verified == verify_candidates_visual(task[i].result.candidates, outs)
       IN  task' = [task EXCEPT ![i] =
                      [pc |-> IF LowVisualCountRaises(verified) THEN "raised" ELSE "done",
                       result |-> [task[i].result EXCEPT !.candidates = verified]]]
    /\ semaphore' = semaphore + 1
    /\ UNCHANGED notPool
    /\ UNCHANGED <<mode, requirements, max_concurrent, verify_visuals, returned,
                   final_results, pool_pc>>

\* gather has every value: build final_results and return
PoolReturn ==
    /\ pool_pc = "gather"
    /\ \A i \in DOMAIN task : task[i].pc \in {"done", "raised"}
    /\ final_results' = AssembleResults(requirements, task)
    /\ pool_pc' = "returned"
    /\ UNCHANGED notPool
    /\ UNCHANGED <<mode, requirements, max_concurrent, verify_visuals, semaphore,
                   task, returned>>

NextPool ==
    \/ \E i \in DOMAIN task : PoolAcquire(i)
    \/ \E i \in DOMAIN task : \E resp \in Responses : PoolFindReturn(i, resp)
    \/ \E i \in DOMAIN task :
          \E outs \in [1..Len(task[i].result.candidates) -> VisualOutcomes] :
             PoolVerifyReturn(i, outs)
    \/ PoolReturn

---------------------------------------------------------------------------
(* ground_scenes_stream.event_stream and its grounding_worker tasks *)

\* scene ids are uuids: the k-th distinct scene of a request
SceneId(k) == 200 + 3 * k

NoScene == 0

\* requests up to renaming of scenes: the first new id is SceneId(1), the next
\* new one SceneId(2), ...; a request may repeat an id
RECURSIVE SceneLists(_)
SceneLists(n) ==
    IF n = 0 THEN {<<>>}
    ELSE LET shorter == SceneLists(n - 1)
             longest == {l \in shorter : Len(l) = n - 1}
         IN  shorter \cup
             UNION { { Append(l, SceneId(k)) : k \in 1..(Cardinality(Range(l)) + 1) } :
                     l \in longest }

\* "Cap at 10 workers"
WorkerCap == 10

Min3(a, b, c) == Min2(a, Min2(b, c))

\* num_workers = min(request.parallel_workers, total_scenes, 10); range() of a
\* negative number is empty
NumWorkers(pw, total) == LET n == Min3(pw, total, WorkerCap) IN IF n < 0 THEN 0 ELSE n

Event(type, sid, n, m) == [type |-> type, scene_id |-> sid, n |-> n, m |-> m]

RECURSIVE LoadScenes(_, _)
\* the loading loop: <<scenes_data keys, scene_queue, error events>>
LoadScenes(ids, gone) ==
    IF ids = <<>> THEN <<{}, <<>>, <<>>>>
    ELSE LET rest == LoadScenes(SubSeq(ids, 1, Len(ids) - 1), gone)
             sid  == ids[Len(ids)]
         IN  IF sid \in gone
             THEN <<rest[1], rest[2],
                    Append(rest[3], Event("error", sid, 0, 0))>>
             ELSE <<rest[1] \cup {sid}, Append(rest[2], sid), rest[3]>>

CandidateEvents(sid, cands) ==
    [i \in 1..Len(cands) |-> Event("candidate", sid, i, 0)]

\* what one grounding_worker puts on result_queue once find_and_verify_locations
\* has returned: the candidates, then scene_complete, or error if saving them
\* raised (request.save_to_db = false is a save that never raises).  Each
\* candidate event is built by _candidate_to_dict, which reads
\* candidate.visual_vibe_score: when the class does not declare it the first
\* candidate raises before anything is put, and the scene ends with error.
WorkerEvents(sid, result, save_raises) ==
    IF result.candidates # <<>> /\ ~Declared("visual_vibe_score")
    THEN <<Event("error", sid, 0, 0)>>
    ELSE IF result.candidates # <<>> /\ save_raises
    THEN Append(CandidateEvents(sid, result.candidates), Event("error", sid, 0, 0))
    ELSE Append(CandidateEvents(sid, result.candidates),
                Event("scene_complete", sid, Len(result.candidates), 0))

\* the responses tried in the stream
StreamResponses == {r \in Responses : r.kind # "empty" /\ Len(r.venues) <= 1}

IsTerminal(e) == e.type \in {"scene_complete", "error"}

\* the stream ending without waiting for its workers
AllWorkersDone_not_awaited == TRUE

\* all(w.done() for w in workers), and what gather(*workers) waits for
AllWorkersDone == \A w \in DOMAIN workers : workers[w].pc = "done"

\* a counter that also counts scene_start
AdvanceProcessed_counts_start(count, e) ==
    IF e.type \in {"scene_start", "scene_complete", "error"} THEN count + 1 ELSE count

\* processed_count[0] += 1 in the scene_complete and error branches
AdvanceProcessed(count, e) == IF IsTerminal(e) THEN count + 1 ELSE count

\* while processed_count[0] < len(scenes_data) or not result_queue.empty()
ConsumerLoopCondition(count, data, queue) ==
    count < Cardinality(data) \/ queue # <<>>

Grounding == {w \in DOMAIN workers : workers[w].pc = "call"}

InitStream ==
    /\ mode = "stream"
    /\ scene_ids \in SceneLists(MaxScenes)
    /\ parallel_workers \in 0..MaxWorkers
    /\ missing \in {{}} \cup {{sid} : sid \in Range(scene_ids)}
    /\ stream_pc = "start"
    /\ scene_queue = <<>>
    /\ result_queue = <<>>
    /\ scenes_data = {}
    /\ processed_count = 0
    /\ all_candidates = 0
    /\ workers = <<>>
    /\ events = <<>>
    /\ call_failed = {}

IdleStream ==
    /\ scene_ids = <<>>
    /\ parallel_workers = 0
    /\ missing = {}
    /\ stream_pc = "off"
    /\ scene_queue = <<>>
    /\ result_queue = <<>>
    /\ scenes_data = {}
    /\ processed_count = 0
    /\ all_candidates = 0
    /\ workers = <<>>
    /\ events = <<>>
    /\ call_failed = {}

\* the initial status event
StreamStart ==
    /\ stream_pc = "start"
    /\ events' = Append(events, Event("status", NoScene, Len(scene_ids), 0))
    /\ stream_pc' = "load"
    /\ UNCHANGED notStream
    /\ UNCHANGED <<mode, scene_ids, parallel_workers, missing,
                   scene_queue, result_queue, scenes_data, processed_count,
                   all_candidates, workers, call_failed>>

\* load all scenes upfront, then create the worker tasks
StreamLoad ==
    /\ stream_pc = "load"
    /\ LET loaded == LoadScenes(scene_ids, missing)
       IN  /\ scenes_data' = loaded[1]
           /\ scene_queue' = loaded[2]
           /\ events' = events \o loaded[3]
    /\ workers' = [w \in 1..NumWorkers(parallel_workers, Len(scene_ids)) |->
                     [pc |-> "get", scene_id |-> NoScene]]
    /\ stream_pc' = "loop"
    /\ UNCHANGED notStream
    /\ UNCHANGED <<mode, scene_ids, parallel_workers, missing,
                   result_queue, processed_count, all_candidates, call_failed>>

\* a worker takes the next scene, signals scene_start and starts grounding it
WorkerGet(w) ==
    /\ workers[w].pc = "get"
    /\ scene_queue # <<>>
    /\ LET sid == Head(scene_queue)
       IN  /\ result_queue' = Append(result_queue, Event("scene_start", sid, w, 0))
           /\ workers' = [workers EXCEPT ![w] = [pc |-> "call", scene_id |-> sid]]
    /\ scene_queue' = Tail(scene_queue)
    /\ UNCHANGED notStream
    /\ UNCHANGED <<mode, scene_ids, parallel_workers, missing,
                   stream_pc, scenes_data, processed_count, all_candidates,
                   events, call_failed>>

\* wait_for(scene_queue.get()) times out on an empty queue: the worker ends
WorkerTimeout(w) ==
    /\ workers[w].pc = "get"
    /\ scene_queue = <<>>
    /\ workers' = [workers EXCEPT ![w].pc = "done"]
    /\ UNCHANGED notStream
    /\ UNCHANGED <<mode, scene_ids, parallel_workers, missing,
                   stream_pc, scene_queue, result_queue, scenes_data,
                   processed_count, all_candidates, events, call_failed>>

\* find_and_verify_locations returns: the worker reports the scene and goes
\* back to the queue
WorkerReturn(w, resp, save_raises) ==
    /\ workers[w].pc = "call"
    /\ LET sid == workers[w].scene_id
           result == find_locations(sid, resp)
       IN  /\ result_queue' = result_queue \o
                                WorkerEvents(sid, result, save_raises)
           /\ call_failed' = IF resp.kind = "raise" THEN call_failed \cup {sid}
                             ELSE call_failed
    /\ workers' = [workers EXCEPT ![w] = [pc |-> "get", scene_id |-> NoScene]]
    /\ UNCHANGED notStream
    /\ UNCHANGED <<mode, scene_ids, parallel_workers, missing,
                   stream_pc, scene_queue, scenes_data, processed_count,
                   all_candidates, events>>

\* the consumer loop takes one event off result_queue, yields it and, for a
\* terminal event, advances processed_count and yields progress
ConsumerGet ==
    /\ stream_pc = "loop"
    /\ ConsumerLoopCondition(processed_count, scenes_data, result_queue)
    /\ result_queue # <<>>
    /\ LET e == Head(result_queue)
       IN  /\ processed_count' = AdvanceProcessed(processed_count, e)
           /\ all_candidates' = IF e.type = "scene_complete"
                                THEN all_candidates + e.n ELSE all_candidates
           /\ events' = IF IsTerminal(e)
                        THEN events \o <<e, Event("progress", NoScene,
                                                  AdvanceProcessed(processed_count, e),
                                                  Len(scene_ids))>>
                        ELSE Append(events, e)
    /\ result_queue' = Tail(result_queue)
    /\ UNCHANGED notStream
    /\ UNCHANGED <<mode, scene_ids, parallel_workers, missing,
                   stream_pc, scene_queue, scenes_data, workers, call_failed>>

\* wait_for(result_queue.get()) times out with every worker done: break
ConsumerTimeout ==
    /\ stream_pc = "loop"
    /\ ConsumerLoopCondition(processed_count, scenes_data, result_queue)
    /\ result_queue = <<>>
    /\ AllWorkersDone
    /\ stream_pc' = "gather"
    /\ UNCHANGED notStream
    /\ UNCHANGED <<mode, scene_ids, parallel_workers, missing,
                   scene_queue, result_queue, scenes_data, processed_count,
                   all_candidates, workers, events, call_failed>>

\* the while condition is false: leave the loop
ConsumerExit ==
    /\ stream_pc = "loop"
    /\ ~ConsumerLoopCondition(processed_count, scenes_data, result_queue)
    /\ stream_pc' = "gather"
    /\ UNCHANGED notStream
    /\ UNCHANGED <<mode, scene_ids, parallel_workers, missing,
                   scene_queue, result_queue, scenes_data, processed_count,
                   all_candidates, workers, events, call_failed>>

\* await asyncio.gather(*workers), then the complete event
StreamComplete ==
    /\ stream_pc = "gather"
    /\ AllWorkersDone
    /\ events' = Append(events, Event("complete", NoScene, Len(scene_ids), all_candidates))
    /\ stream_pc' = "done"
    /\ UNCHANGED notStream
    /\ UNCHANGED <<mode, scene_ids, parallel_workers, missing,
                   scene_queue, result_queue, scenes_data, processed_count,
                   all_candidates, workers, call_failed>>

\* the client stops consuming: the generator is closed; the worker tasks are
\* separate asyncio tasks that nothing cancels
StreamAbort ==
    /\ stream_pc \in {"load", "loop"}
    /\ stream_pc' = "closed"
    /\ UNCHANGED notStream
    /\ UNCHANGED <<mode, scene_ids, parallel_workers, missing,
                   scene_queue, result_queue, scenes_data, processed_count,
                   all_candidates, workers, events, call_failed>>

WorkerStep ==
    \/ \E w \in DOMAIN workers : WorkerGet(w)
    \/ \E w \in DOMAIN workers : WorkerTimeout(w)
    \/ \E w \in DOMAIN workers : \E resp \in StreamResponses : \E save_raises \in BOOLEAN :
          WorkerReturn(w, resp, save_raises)

ConsumerStep ==
    \/ StreamStart
    \/ StreamLoad
    \/ ConsumerGet
    \/ ConsumerTimeout
    \/ ConsumerExit
    \/ StreamComplete

NextStream == WorkerStep \/ ConsumerStep \/ StreamAbort

---------------------------------------------------------------------------
(* process_locations_streaming, consumed by analyze_script.event_generator *)

\* max_retries of analyze_location_with_llm
max_retries == 3

LlmNextWaiting(i) ==
    llm_task[i].pc = "waiting" /\ \A j \in 1..(i - 1) : llm_task[j].pc # "waiting"

Analyzing == {i \in DOMAIN llm_task : llm_task[i].pc = "analyzing"}

\* one attempt of analyze_location_with_llm ends: <<new task state, what
\* process_single puts on the queue (empty while it retries)>>
AfterAttempt(idx, attempt, ok) ==
    IF ok
    THEN <<[pc |-> "done", attempt |-> attempt], <<[idx |-> idx, ok |-> TRUE]>>>>
    ELSE IF attempt < max_retries - 1
    THEN <<[pc |-> "analyzing", attempt |-> attempt + 1], <<>>>>
    ELSE <<[pc |-> "done", attempt |-> attempt], <<[idx |-> idx, ok |-> FALSE]>>>>

InitLlm ==
    /\ mode = "analyze"
    /\ total_locations \in 0..MaxLocations
    /\ llm_max_concurrent \in 1..MaxConcurrent
    /\ llm_semaphore = llm_max_concurrent
    /\ llm_task = [i \in 1..total_locations |-> [pc |-> "waiting", attempt |-> 0]]
    /\ llm_queue = <<>>
    /\ completed = 0
    /\ llm_pc = "loop"
    /\ script_processed = 0
    /\ script_events = <<>>

IdleLlm ==
    /\ total_locations = 0
    /\ llm_max_concurrent = 0
    /\ llm_semaphore = 0
    /\ llm_task = <<>>
    /\ llm_queue = <<>>
    /\ completed = 0
    /\ llm_pc = "off"
    /\ script_processed = 0
    /\ script_events = <<>>

\* async with semaphore: process_single enters analyze_location_with_llm
LlmAcquire(i) ==
    /\ LlmNextWaiting(i)
    /\ SemaphoreFree(llm_semaphore)
    /\ llm_semaphore' = llm_semaphore - 1
    /\ llm_task' = [llm_task EXCEPT ![i].pc = "analyzing"]
    /\ UNCHANGED notLlm
    /\ UNCHANGED <<mode, total_locations, llm_max_concurrent, llm_queue, completed,
                   llm_pc, script_processed, script_events>>

\* one attempt returns or raises; after the last one process_single queues the
\* requirement or the exception and releases its permit
LlmAttempt(i, ok) ==
    /\ llm_task[i].pc = "analyzing"
    /\ LET after == AfterAttempt(i, llm_task[i].attempt, ok)
       IN  /\ llm_task' = [llm_task EXCEPT ![i] = after[1]]
           /\ llm_queue' = llm_queue \o after[2]
           /\ llm_semaphore' = IF after[1].pc = "done" THEN llm_semaphore + 1
                               ELSE llm_semaphore
    /\ UNCHANGED notLlm
    /\ UNCHANGED <<mode, total_locations, llm_max_concurrent, completed, llm_pc,
                   script_processed, script_events>>

\* the generator takes one queue entry; an exception is skipped, a requirement
\* is yielded and analyze_script emits it with a progress event
LlmConsume ==
    /\ llm_pc = "loop"
    /\ completed < total_locations
    /\ llm_queue # <<>>
    /\ completed' = completed + 1
    /\ llm_queue' = Tail(llm_queue)
    /\ IF Head(llm_queue).ok
       THEN /\ script_processed' = script_processed + 1
            /\ script_events' = script_events \o
                 << Event("location", NoScene, Head(llm_queue).idx, 0),
                    Event("progress", NoScene, script_processed + 1, total_locations) >>
       ELSE UNCHANGED <<script_processed, script_events>>
    /\ UNCHANGED notLlm
    /\ UNCHANGED <<mode, total_locations, llm_max_concurrent, llm_semaphore,
                   llm_task, llm_pc>>

\* the generator is exhausted (or was never entered: total_locations = 0):
\* analyze_script emits complete
LlmComplete ==
    /\ llm_pc = "loop"
    /\ completed >= total_locations
    /\ script_events' = Append(script_events,
                               Event("complete", NoScene, script_processed, 0))
    /\ llm_pc' = "done"
    /\ UNCHANGED notLlm
    /\ UNCHANGED <<mode, total_locations, llm_max_concurrent, llm_semaphore,
                   llm_task, llm_queue, completed, script_processed>>

\* the caller stops consuming: the generator is closed; the process_single
\* tasks are separate asyncio tasks that nothing cancels
LlmAbort ==
    /\ llm_pc = "loop"
    /\ total_locations > 0
    /\ llm_pc' = "closed"
    /\ UNCHANGED notLlm
    /\ UNCHANGED <<mode, total_locations, llm_max_concurrent, llm_semaphore,
                   llm_task, llm_queue, completed, script_processed, script_events>>

NextLlm ==
    \/ \E i \in DOMAIN llm_task : LlmAcquire(i)
    \/ \E i \in DOMAIN llm_task : \E ok \in BOOLEAN : LlmAttempt(i, ok)
    \/ LlmConsume
    \/ LlmComplete
    \/ LlmAbort

---------------------------------------------------------------------------
(* Scene headers.  A header is the sequence of its tokens: INT/EXT markers,
   single spaces, dashes, slashes, parentheses, quotes and words. *)

\* str.upper() on a token
Upper(tok) == IF tok = "Kitchen" THEN "KITCHEN" ELSE tok

\* len() of a token
TokLen(tok) ==
    CASE tok \in {" ", "-", "/", "(", ")", "'"} -> 1
      [] tok \in {"INT", "EXT", "DAY"} -> 3
      [] tok \in {"INT.", "EXT.", "PARK"} -> 4
      [] tok \in {"NIGHT", "HOUSE"} -> 5
      [] tok = "MASTER" -> 6
      [] tok \in {"KITCHEN", "Kitchen", "BEDROOM"} -> 7
      [] tok = "CONTINUOUS" -> 10
      [] OTHER -> 1

RECURSIVE HeaderLen(_)
\* len(scene_header)
HeaderLen(h) == IF h = <<>> THEN 0 ELSE TokLen(Head(h)) + HeaderLen(Tail(h))

RECURSIVE LStrip(_)
LStrip(h) == IF h # <<>> /\ Head(h) = " " THEN LStrip(Tail(h)) ELSE h

RECURSIVE RStrip(_)
RStrip(h) == IF h # <<>> /\ h[Len(h)] = " " THEN RStrip(SubSeq(h, 1, Len(h) - 1)) ELSE h

\* str.strip()
Strip(h) == RStrip(LStrip(h))

RECURSIVE SkipWhile(_, _)
\* h without its longest prefix of tokens in toks
SkipWhile(h, toks) == IF h # <<>> /\ Head(h) \in toks THEN SkipWhile(Tail(h), toks) ELSE h

LeadingSpaces(h) == Len(h) - Len(LStrip(h))

\* re.sub(r'^(INT\.|EXT\.|INT|EXT)[\s/]*', '', h)
StripPrefix(h) ==
    IF h # <<>> /\ Head(h) \in {"INT.", "EXT.", "INT", "EXT"}
    THEN SkipWhile(Tail(h), {" ", "/"})
    ELSE h

TimeWords == {"DAY", "NIGHT", "MORNING", "EVENING", "DAWN", "DUSK", "SUNSET",
              "SUNRISE", "LATER", "CONTINUOUS", "SAME"}

\* how many tokens \s*[-]\s*(DAY|NIGHT|...)(\s|$) matches at the start of h
\* (0: no match)
TimeSuffixAt(h) ==
    LET a == LeadingSpaces(h)
        afterDash == SubSeq(h, a + 2, Len(h))
        b == LeadingSpaces(afterDash)
        w == a + 1 + b + 1
    IN  IF Len(h) >= a + 1 /\ h[a + 1] = "-" /\ Len(h) >= w /\ h[w] \in TimeWords
        THEN IF Len(h) = w THEN w
             ELSE IF h[w + 1] = " " THEN w + 1
             ELSE 0
        ELSE 0

RECURSIVE RemoveTimeSuffixes(_)
RemoveTimeSuffixes(h) ==
    IF h = <<>> THEN <<>>
    ELSE IF TimeSuffixAt(h) > 0
         THEN RemoveTimeSuffixes(SubSeq(h, TimeSuffixAt(h) + 1, Len(h)))
         ELSE <<Head(h)>> \o RemoveTimeSuffixes(Tail(h))

\* index of the first ")" of h, 0 if none
FirstClose(h) ==
    IF \E i \in 1..Len(h) : h[i] = ")"
    THEN CHOOSE i \in 1..Len(h) : h[i] = ")" /\ \A j \in 1..(i - 1) : h[j] # ")"
    ELSE 0

\* how many tokens \s*\([^)]*\)\s* matches at the start of h (0: no match)
ParenAt(h) ==
    LET a == LeadingSpaces(h)
        rest == SubSeq(h, a + 1, Len(h))
        c == FirstClose(rest)
    IN  IF rest # <<>> /\ Head(rest) = "(" /\ c > 0
        THEN a + c + LeadingSpaces(SubSeq(rest, c + 1, Len(rest)))
        ELSE 0

RECURSIVE RemoveParens(_)
\* re.sub(r'\s*\([^)]*\)\s*', ' ', h)
RemoveParens(h) ==
    IF h = <<>> THEN <<>>
    ELSE IF ParenAt(h) > 0
         THEN <<" ">> \o RemoveParens(SubSeq(h, ParenAt(h) + 1, Len(h)))
         ELSE <<Head(h)>> \o RemoveParens(Tail(h))

RECURSIVE CollapseSeparators(_)
\* re.sub(r'[\s\-]+', ' ', h)
CollapseSeparators(h) ==
    IF h = <<>> THEN <<>>
    ELSE IF Head(h) \in {" ", "-"}
         THEN <<" ">> \o CollapseSeparators(SkipWhile(h, {" ", "-"}))
         ELSE <<Head(h)>> \o CollapseSeparators(Tail(h))

IsNotQuote(tok) == tok # "'"

\* _normalize_header_for_matching
_normalize_header_for_matching(header) ==
    LET h0 == Strip([i \in 1..Len(header) |-> Upper(header[i])])
        h1 == StripPrefix(h0)
        h2 == RemoveTimeSuffixes(h1)
        h3 == RemoveParens(h2)
        h4 == Strip(CollapseSeparators(h3))
    IN  SelectSeq(h4, IsNotQuote)

\* the entries of MERGEABLE_LOCATION_TYPES whose pattern is one of the words
\* used here, in the order of the list
MERGEABLE_LOCATION_TYPES == <<"BEDROOM", "KITCHEN">>

\* re.search(pattern, header.lower()) for the pattern of a type
TypeMatches(type, header) == \E i \in 1..Len(header) : Upper(header[i]) = type

\* _get_location_type; "" stands for None
_get_location_type(header) ==
    IF \E k \in 1..Len(MERGEABLE_LOCATION_TYPES) :
          TypeMatches(MERGEABLE_LOCATION_TYPES[k], header)
    THEN MERGEABLE_LOCATION_TYPES[
            CHOOSE k \in 1..Len(MERGEABLE_LOCATION_TYPES) :
               /\ TypeMatches(MERGEABLE_LOCATION_TYPES[k], header)
               /\ \A j \in 1..(k - 1) : ~TypeMatches(MERGEABLE_LOCATION_TYPES[j], header)]
    ELSE ""

---------------------------------------------------------------------------
(* The merges of deduplicate_locations_with_llm.  A location is a record
   [scene_header, interior_exterior, time_of_day, occurrences, page_numbers];
   an occurrence is [page_number, context]. *)

\* list.sort(key=...): ascending and stable; keys[i] is the key of items[i]
SortStable(items, keys) ==
    LET Rank(i) == 1 + Cardinality({j \in 1..Len(items) :
                         keys[j] < keys[i] \/ (keys[j] = keys[i] /\ j < i)})
    IN  [r \in 1..Len(items) |-> items[CHOOSE i \in 1..Len(items) : Rank(i) = r]]

\* sorted(a_set)
SortedSeq(S) ==
    [r \in 1..Cardinality(S) |->
        CHOOSE x \in S : Cardinality({y \in S : y < x}) = r - 1]

\* sorted(set(a + b))
MergePages_keeps_first(a, b) == a
MergePages(a, b) == SortedSeq(Range(a) \cup Range(b))

\* result.sort(key=lambda loc: loc.page_numbers[0] if loc.page_numbers else 0)
SortByFirstPage(locs) ==
    SortStable(locs, [i \in 1..Len(locs) |->
        IF locs[i].page_numbers # <<>> THEN locs[i].page_numbers[1] ELSE 0])

\* the values of key over items, each once, in order of first appearance
\* (the key order of a dict filled in a loop)
InsertionOrder(keys) ==
    LET first == {i \in 1..Len(keys) : \A j \in 1..(i - 1) : keys[j] # keys[i]}
        idx == SortedSeq(first)
    IN  [g \in 1..Len(idx) |-> keys[idx[g]]]

\* the items whose key is k, in order
GroupOf(items, keys, k) ==
    LET idx == SortedSeq({i \in 1..Len(items) : keys[i] = k})
    IN  [g \in 1..Len(idx) |-> items[idx[g]]]

\* the body of the loop "for other in locs[1:]" of _pre_merge_obvious_duplicates
PreMergeAbsorb(canonical, other) ==
    [canonical EXCEPT
        !.occurrences = canonical.occurrences \o other.occurrences,
        !.page_numbers = MergePages(canonical.page_numbers, other.page_numbers),
        !.interior_exterior =
            IF canonical.interior_exterior # other.interior_exterior
            THEN "both" ELSE canonical.interior_exterior,
        !.time_of_day =
            IF canonical.time_of_day # other.time_of_day
            THEN "both" ELSE canonical.time_of_day]

RECURSIVE PreMergeAll(_, _)
\* for other in locs[1:]: merge other into canonical
PreMergeAll(canonical, others) ==
    IF others = <<>> THEN canonical
    ELSE PreMergeAll(PreMergeAbsorb(canonical, Head(others)), Tail(others))

\* one group of _pre_merge_obvious_duplicates: the longest header absorbs the rest
PreMergeGroup(locs) ==
    IF Len(locs) = 1 THEN locs[1]
    ELSE LET sorted == SortStable(locs,
                 [i \in 1..Len(locs) |-> 0 - HeaderLen(locs[i].scene_header)])
         IN  PreMergeAll(sorted[1], Tail(sorted))

\* _pre_merge_obvious_duplicates grouping by the header as written
_pre_merge_obvious_duplicates_by_header(locs) ==
    LET keys == [i \in 1..Len(locs) |-> locs[i].scene_header]
        groups == InsertionOrder(keys)
    IN  SortByFirstPage([g \in 1..Len(groups) |->
                            PreMergeGroup(GroupOf(locs, keys, groups[g]))])

\* _pre_merge_obvious_duplicates (the list it returns)
_pre_merge_obvious_duplicates(locs) ==
    LET keys == [i \in 1..Len(locs) |->
                    _normalize_header_for_matching(locs[i].scene_header)]
        groups == InsertionOrder(keys)
    IN  SortByFirstPage([g \in 1..Len(groups) |->
                            PreMergeGroup(GroupOf(locs, keys, groups[g]))])

\* header_to_canonical.get(header, header)
CanonicalOf(header_to_canonical, header) ==
    IF header \in DOMAIN header_to_canonical
    THEN header_to_canonical[header] ELSE header

\* the "if canonical in merged" branch of _merge_locations
MergeInto(existing, loc) ==
    [existing EXCEPT
        !.occurrences = existing.occurrences \o loc.occurrences,
        !.page_numbers = MergePages(existing.page_numbers, loc.page_numbers),
        !.time_of_day =
            IF existing.time_of_day # loc.time_of_day /\ loc.time_of_day # "both"
            THEN "both" ELSE existing.time_of_day,
        !.interior_exterior =
            IF existing.interior_exterior # loc.interior_exterior
            THEN "both" ELSE existing.interior_exterior]

\* the body of the loop of _merge_locations; merged is the dict's values in
\* insertion order, each keyed by its scene_header
MergeStep(header_to_canonical, merged, loc) ==
    LET canonical == CanonicalOf(header_to_canonical, loc.scene_header)
    IN  IF \E i \in 1..Len(merged) : merged[i].scene_header = canonical
        THEN [i \in 1..Len(merged) |->
                IF merged[i].scene_header = canonical
                THEN MergeInto(merged[i], loc) ELSE merged[i]]
        ELSE Append(merged, [loc EXCEPT !.scene_header = canonical])

RECURSIVE MergeAll(_, _, _)
\* for loc in locations: the loop of _merge_locations
MergeAll(header_to_canonical, merged, locs) ==
    IF locs = <<>> THEN merged
    ELSE MergeAll(header_to_canonical,
                  MergeStep(header_to_canonical, merged, Head(locs)), Tail(locs))

\* _merge_locations
_merge_locations(locs, header_to_canonical) ==
    SortByFirstPage(MergeAll(header_to_canonical, <<>>, locs))

\* the body of the loop "for loc in locs[1:]" of _merge_by_location_type;
\* interior_exterior carries the local interior_ext
TypeMergeAbsorb(canonical, loc) ==
    [canonical EXCEPT
        !.occurrences = canonical.occurrences \o loc.occurrences,
        !.page_numbers = MergePages(canonical.page_numbers, loc.page_numbers),
        !.time_of_day =
            IF canonical.time_of_day # loc.time_of_day
            THEN "both" ELSE canonical.time_of_day,
        !.interior_exterior =
            IF canonical.interior_exterior # loc.interior_exterior
            THEN "both" ELSE canonical.interior_exterior]

RECURSIVE TypeMergeAll(_, _)
\* for loc in locs[1:]: merge loc into canonical
TypeMergeAll(canonical, others) ==
    IF others = <<>> THEN canonical
    ELSE TypeMergeAll(TypeMergeAbsorb(canonical, Head(others)), Tail(others))

\* f"INT. {loc_type}" if interior_ext == "interior" else f"INT./EXT. {loc_type}"
TypeHeader(interior_ext, loc_type) ==
    IF interior_ext = "interior"
    THEN <<"INT.", " ", loc_type>>
    ELSE <<"INT.", "/", "EXT.", " ", loc_type>>

\* one type group of _merge_by_location_type
TypeMergeGroup(loc_type, locs) ==
    IF Len(locs) = 1 THEN locs[1]
    ELSE LET sorted == SortStable(locs, [i \in 1..Len(locs) |->
                 IF locs[i].page_numbers # <<>> THEN locs[i].page_numbers[1] ELSE 999])
             canonical == TypeMergeAll(sorted[1], Tail(sorted))
         IN  [canonical EXCEPT
                !.scene_header = TypeHeader(canonical.interior_exterior, loc_type)]

IsNonTyped(loc) == _get_location_type(loc.scene_header) = ""

IsTyped(loc) == _get_location_type(loc.scene_header) # ""

\* _merge_by_location_type with merged_locations started from every location
_merge_by_location_type_keeps_all(locs) ==
    LET typed == SelectSeq(locs, IsTyped)
        types == [i \in 1..Len(typed) |-> _get_location_type(typed[i].scene_header)]
        type_groups == InsertionOrder(types)
    IN  SortByFirstPage(
            locs \o
            [g \in 1..Len(type_groups) |->
                TypeMergeGroup(type_groups[g], GroupOf(typed, types, type_groups[g]))])

\* _merge_by_location_type (the list it returns)
_merge_by_location_type(locs) ==
    LET typed == SelectSeq(locs, IsTyped)
        types == [i \in 1..Len(typed) |-> _get_location_type(typed[i].scene_header)]
        type_groups == InsertionOrder(types)
    IN  SortByFirstPage(
            SelectSeq(locs, IsNonTyped) \o
            [g \in 1..Len(type_groups) |->
                TypeMergeGroup(type_groups[g], GroupOf(typed, types, type_groups[g]))])

---------------------------------------------------------------------------
(* deduplicate_locations_with_llm *)

\* the locations a script offers: three spellings of one kitchen, a park by
\* day and by night and two bedrooms
LocationPool ==
    { [scene_header |-> <<"INT.", " ", "KITCHEN", " ", "-", " ", "DAY">>,
       interior_exterior |-> "INT", time_of_day |-> "day"],
      [scene_header |-> <<"INT", " ", "Kitchen">>,
       interior_exterior |-> "INT", time_of_day |-> "both"],
      [scene_header |-> <<"EXT.", " ", "KITCHEN", " ", "-", " ", "NIGHT">>,
       interior_exterior |-> "EXT", time_of_day |-> "night"],
      [scene_header |-> <<"EXT.", " ", "PARK">>,
       interior_exterior |-> "EXT", time_of_day |-> "day"],
      [scene_header |-> <<"EXT.", " ", "PARK", " ", "-", " ", "NIGHT">>,
       interior_exterior |-> "EXT", time_of_day |-> "night"],
      [scene_header |-> <<"INT.", " ", "MASTER", " ", "BEDROOM">>,
       interior_exterior |-> "INT", time_of_day |-> "both"],
      [scene_header |-> <<"INT.", " ", "BEDROOM", " ", "(", "CONTINUOUS", ")">>,
       interior_exterior |-> "INT", time_of_day |-> "night"] }

\* a canonical header the model may answer with that no location carries
InventedHeader == <<"INT.", " ", "HOUSE">>

\* the i-th location of a script: it occurs on pages i and i + 1, and the
\* context of its occurrences is its own
LocationAt(i, l) ==
    [scene_header |-> l.scene_header,
     interior_exterior |-> l.interior_exterior,
     time_of_day |-> l.time_of_day,
     occurrences |-> << [page_number |-> i, context |-> i],
                        [page_number |-> i + 1, context |-> i] >>,
     page_numbers |-> <<i, i + 1>>]

\* the lists extract_unique_locations can hand over: sorted by first page
LocationLists ==
    UNION { { [i \in 1..n |-> LocationAt(i, choice[i])] :
                choice \in [1..n -> LocationPool] } : n \in 0..MaxDedup }

Headers(locs) == {locs[i].scene_header : i \in 1..Len(locs)}

\* what the name pass's call can come to: it raises (or its text is no JSON
\* object), or it answers with duplicate -> canonical and the flagged headers
Pass1Responses(locs) ==
    { [kind |-> "raise", merge |-> <<>>, needs_context |-> {}],
      [kind |-> "unparsable", merge |-> <<>>, needs_context |-> {}] } \cup
    { [kind |-> "json", merge |-> m, needs_context |-> nc] :
        m \in UNION { [D -> Headers(locs) \cup {InventedHeader}] :
                        D \in {D \in SUBSET Headers(locs) : Cardinality(D) <= MaxMerged} },
        nc \in {{}, Headers(locs)} }

\* what the context pass's call can come to
Pass2Decisions == {"raise", "same", "different"}

\* groups_to_check: the flagged headers that more than one location carries
groups_to_check(locs, flagged) ==
    {h \in flagged : Cardinality({i \in 1..Len(locs) : locs[i].scene_header = h}) > 1}

\* the context pass: its call is made only if groups_to_check is not empty
ContextPassResult(locs, flagged, decision) ==
    IF flagged = {} \/ groups_to_check(locs, flagged) = {} \/ decision # "same"
    THEN locs
    ELSE _merge_locations(locs, [h \in groups_to_check(locs, flagged) |-> h])

InitDedup ==
    /\ mode = "dedup"
    /\ input_locations \in LocationLists
    /\ locations = input_locations
    /\ needs_context = {}
    /\ dedup_pc = "pre"
    /\ dedup_calls = <<>>

IdleDedup ==
    /\ input_locations = <<>>
    /\ locations = <<>>
    /\ needs_context = {}
    /\ dedup_pc = "off"
    /\ dedup_calls = <<>>

\* "if not locations: return locations", else pass 0
DedupPreMerge ==
    /\ dedup_pc = "pre"
    /\ IF locations = <<>>
       THEN /\ dedup_pc' = "done"
            /\ UNCHANGED locations
       ELSE /\ locations' = _pre_merge_obvious_duplicates(locations)
            /\ dedup_pc' = "name"
    /\ UNCHANGED notDedup
    /\ UNCHANGED <<mode, input_locations, needs_context, dedup_calls>>

\* the list pass 1 leaves: the merge by the answer, or, when the call raised or
\* _extract_json raised on its text, the list as it was
NamePassResult_failure_empties(locs, resp) ==
    IF resp.kind = "json" THEN _merge_locations(locs, resp.merge) ELSE <<>>
NamePassResult(locs, resp) ==
    IF resp.kind = "json" THEN _merge_locations(locs, resp.merge) ELSE locs

\* pass 1: the call returns or raises; a failure leaves the list as it is
DedupNamePass(resp) ==
    /\ dedup_pc = "name"
    /\ resp \in Pass1Responses(locations)
    /\ needs_context' = IF resp.kind = "json" THEN resp.needs_context ELSE needs_context
    /\ locations' = NamePassResult(locations, resp)
    /\ dedup_calls' = Append(dedup_calls, [pass |-> 1, kind |-> resp.kind])
    /\ dedup_pc' = "context"
    /\ UNCHANGED notDedup
    /\ UNCHANGED <<mode, input_locations>>

\* pass 2: the call is made only for a flagged header several locations carry
DedupContextPass(decision) ==
    /\ dedup_pc = "context"
    /\ locations' = ContextPassResult(locations, needs_context, decision)
    /\ dedup_calls' =
         IF needs_context # {} /\ groups_to_check(locations, needs_context) # {}
         THEN Append(dedup_calls, [pass |-> 2, kind |-> decision])
         ELSE dedup_calls
    /\ dedup_pc' = "type"
    /\ UNCHANGED notDedup
    /\ UNCHANGED <<mode, input_locations, needs_context>>

\* pass 3 and the return
DedupTypePass ==
    /\ dedup_pc = "type"
    /\ locations' = _merge_by_location_type(locations)
    /\ dedup_pc' = "done"
    /\ UNCHANGED notDedup
    /\ UNCHANGED <<mode, input_locations, needs_context, dedup_calls>>

NextDedup ==
    \/ DedupPreMerge
    \/ \E resp \in Pass1Responses(locations) : DedupNamePass(resp)
    \/ \E decision \in Pass2Decisions : DedupContextPass(decision)
    \/ DedupTypePass

---------------------------------------------------------------------------
(* _normalize_header_for_matching on its own *)

\* the tokens the headers are built of
HeaderTokens == {"INT.", "EXT", "/", " ", "-", "DAY", "KITCHEN", "Kitchen", "(", ")", "'"}

\* every header of up to MaxTokens tokens
HeaderSamples == UNION { [1..n -> HeaderTokens] : n \in 0..MaxTokens }

InitNorm ==
    /\ mode = "normalize"
    /\ norm_header \in HeaderSamples
    /\ normalized = <<>>
    /\ renormalized = <<>>
    /\ norm_pc = "header"

IdleNorm ==
    /\ norm_header = <<>>
    /\ normalized = <<>>
    /\ renormalized = <<>>
    /\ norm_pc = "off"

\* normalized = _normalize_header_for_matching(norm_header)
NormalizeHeader ==
    /\ norm_pc = "header"
    /\ normalized' = _normalize_header_for_matching(norm_header)
    /\ norm_pc' = "key"
    /\ UNCHANGED notNorm
    /\ UNCHANGED <<mode, norm_header, renormalized>>

\* renormalized = _normalize_header_for_matching(normalized)
NormalizeKey ==
    /\ norm_pc = "key"
    /\ renormalized' = _normalize_header_for_matching(normalized)
    /\ norm_pc' = "done"
    /\ UNCHANGED notNorm
    /\ UNCHANGED <<mode, norm_header, normalized>>

NextNorm == NormalizeHeader \/ NormalizeKey

---------------------------------------------------------------------------
(* _calculate_match_score on its own *)

\* google_rating in tenths (0: None) and google_review_count, around the tiers
RatingSamples == {0, 10, 29, 30, 34, 35, 39, 40, 50}
ReviewSamples == {0, 49, 50, 500}

\* the candidates handed to _calculate_match_score
ScoreInputs ==
    [phone_number : BOOLEAN, match_reasoning : BOOLEAN,
     google_rating : RatingSamples, google_review_count : ReviewSamples,
     website_url : BOOLEAN,
     red_flags : {[i \in 1..n |-> "concern"] : n \in 0..MaxFlags}]

InitScore ==
    /\ mode = "score"
    /\ score_candidate \in ScoreInputs
    /\ score_value = 0
    /\ score_pc = "call"

IdleScore ==
    /\ score_candidate = <<>>
    /\ score_value = 0
    /\ score_pc = "off"

\* candidate.match_score = self._calculate_match_score(candidate, requirement)
ScoreCandidate ==
    /\ score_pc = "call"
    /\ score_value' = _calculate_match_score(score_candidate)
    /\ score_pc' = "done"
    /\ UNCHANGED notScore
    /\ UNCHANGED <<mode, score_candidate>>

NextScore == ScoreCandidate

---------------------------------------------------------------------------
(* GroundingAgent.find_and_verify_locations on one requirement *)

\* the venue lists the call can return: no venue twice
VenueLists ==
    UNION { {l \in [1..n -> RawVenues] :
                \A i, j \in 1..n : i # j => l[i].venue_name # l[j].venue_name}
            : n \in 0..MaxVenues }

VerifyResponses ==
    { [kind |-> "raise", venues |-> <<>>], [kind |-> "empty", venues |-> <<>>] }
    \cup { [kind |-> "json", venues |-> l] : l \in VenueLists }

InitVerify ==
    /\ mode = "verify"
    /\ fv_response \in VerifyResponses
    /\ fv_verify_visuals \in BOOLEAN
    /\ fv_candidates = <<>>
    /\ fv_outcomes = <<>>
    /\ fv_verified = <<>>
    /\ fv_pc = "find"

IdleVerify ==
    /\ fv_response = NoResponse
    /\ fv_verify_visuals = FALSE
    /\ fv_candidates = <<>>
    /\ fv_outcomes = <<>>
    /\ fv_verified = <<>>
    /\ fv_pc = "off"

\* result = await self.find_locations(requirement); the visual pass follows
\* only if asked for and some candidate has a photo
VerifyFind ==
    /\ fv_pc = "find"
    /\ LET result == find_locations(ReqId(1), fv_response)
       IN  /\ fv_candidates' = result.candidates
           /\ fv_pc' = IF NeedsVisualPass(fv_verify_visuals, result)
                       THEN "verify" ELSE "done"
    /\ UNCHANGED notVerify
    /\ UNCHANGED <<mode, fv_response, fv_verify_visuals, fv_outcomes, fv_verified>>

\* result.candidates = await self.verify_candidates_visual(...), then the count
\* of low visual scores, which returns or raises
VerifyVisual(outs) ==
    /\ fv_pc = "verify"
    /\ fv_outcomes' = outs
    /\ fv_verified' = verify_candidates_visual(fv_candidates, outs)
    /\ fv_pc' = IF LowVisualCountRaises(fv_verified') THEN "raised" ELSE "done"
    /\ UNCHANGED notVerify
    /\ UNCHANGED <<mode, fv_response, fv_verify_visuals, fv_candidates>>

NextVerify ==
    \/ VerifyFind
    \/ \E outs \in [1..Len(fv_candidates) -> VisualOutcomes] : VerifyVisual(outs)

---------------------------------------------------------------------------
(* The lifecycle of candidates: parse_response and create_location create them,
   VapiService calls them and applies webhooks, the repository approves and
   rejects them.  A candidate is the LocationCandidate object until it is
   stored and the row of location_candidates afterwards: status and
   vapi_call_status are those of the row once there is one. *)

\* the values _parse_status_update receives in message.status
WebhookStatuses == {"queued", "ringing", "in-progress", "ended", "failed"}

WebhookMessages ==
    { [type |-> "status-update", status |-> st] : st \in WebhookStatuses }
    \cup { [type |-> "end-of-call-report", status |-> ""],
           [type |-> "transcript", status |-> ""] }

\* status_map.get(status, status) in _parse_status_update
status_map(st) ==
    CASE st = "ringing"     -> "ringing"
      [] st = "in-progress" -> "in_progress"
      [] st = "ended"       -> "completed"
      [] st = "busy"        -> "busy"
      [] st = "no-answer"   -> "no_answer"
      [] st = "voicemail"   -> "voicemail"
      [] st = "failed"      -> "failed"
      [] OTHER              -> st

\* parse_webhook_payload: the vapi_call_status to write, "" when the message
\* type is not handled
parse_webhook_payload(msg) ==
    IF msg.type = "end-of-call-report" THEN "completed"
    ELSE IF msg.type = "status-update" THEN status_map(msg.status)
    ELSE ""

\* LocationCandidateRepository.update: only a stored row is changed
update_vapi_call(c, vapi_call_status) ==
    IF c.stored THEN [c EXCEPT !.vapi_call_status = vapi_call_status] ELSE c

update_status(c, status) ==
    IF c.stored THEN [c EXCEPT !.status = status] ELSE c

InitLifecycle ==
    /\ mode = "lifecycle"
    /\ lc_candidates = <<>>
    /\ lc_inflight = {}
    /\ lc_posted = {}
    /\ lc_unsaved = {}

IdleLifecycle ==
    /\ lc_candidates = <<>>
    /\ lc_inflight = {}
    /\ lc_posted = {}
    /\ lc_unsaved = {}

\* grounding: parse_response builds the candidate of one venue
LcParseResponse(venue) ==
    /\ mode = "lifecycle"
    /\ Len(lc_candidates) < MaxCandidates
    /\ LET c == ParseCandidate(venue, ReqId(1))
       IN  lc_candidates' = Append(lc_candidates,
              [origin |-> "grounding", phone_number |-> c.phone_number,
               status |-> c.status, vapi_call_status |-> c.vapi_call_status,
               stored |-> FALSE])
    /\ UNCHANGED notLifecycle
    /\ UNCHANGED <<mode, lc_inflight, lc_posted, lc_unsaved>>

\* grounding: create_many stores the candidate; _candidate_to_dict reads
\* candidate.visual_vibe_score, which raises when the class does not declare it
LcCreateMany(id) ==
    /\ mode = "lifecycle"
    /\ id \in DOMAIN lc_candidates
    /\ lc_candidates[id].origin = "grounding"
    /\ ~lc_candidates[id].stored
    /\ id \notin lc_unsaved
    /\ IF Declared("visual_vibe_score")
       THEN /\ lc_candidates' = [lc_candidates EXCEPT ![id].stored = TRUE]
            /\ UNCHANGED lc_unsaved
       ELSE /\ lc_unsaved' = lc_unsaved \cup {id}
            /\ UNCHANGED lc_candidates
    /\ UNCHANGED notLifecycle
    /\ UNCHANGED <<mode, lc_inflight, lc_posted>>

\* create_location: inserts a row with the request's phone_number (a str, which
\* may be empty), status "discovered" and vapi_call_status "not_initiated"
LcCreateLocation(phone_number) ==
    /\ mode = "lifecycle"
    /\ Len(lc_candidates) < MaxCandidates
    /\ lc_candidates' = Append(lc_candidates,
          [origin |-> "create_location", phone_number |-> phone_number,
           status |-> "discovered", vapi_call_status |-> "not_initiated",
           stored |-> TRUE])
    /\ UNCHANGED notLifecycle
    /\ UNCHANGED <<mode, lc_inflight, lc_posted, lc_unsaved>>

\* VapiService.trigger_call up to its await of POST /call, for each context of
\* ids: to_vapi_call_payload raises ValueError for a candidate without phone
\* number before anything is written or sent; otherwise the row becomes
\* "queued" and the request is sent.
StartCalls(ids) ==
    LET callable == {id \in ids : lc_candidates[id].phone_number}
    IN  /\ lc_candidates' = [id \in DOMAIN lc_candidates |->
               IF id \in callable
               THEN update_vapi_call(lc_candidates[id], "queued")
               ELSE lc_candidates[id]]
        /\ lc_posted' = lc_posted \cup callable
        /\ lc_inflight' = lc_inflight \cup callable

\* VapiService.trigger_call(context); a second trigger_call for a candidate
\* whose request is still awaited is followed in the model of one row below
LcTriggerCall(id) ==
    /\ mode = "lifecycle"
    /\ id \in DOMAIN lc_candidates
    /\ id \notin lc_inflight
    /\ StartCalls({id})
    /\ UNCHANGED notLifecycle
    /\ UNCHANGED <<mode, lc_unsaved>>

\* VapiService.trigger_batch_calls(contexts): every context runs trigger_call
\* under the semaphore, its exception kept as a value
LcTriggerBatchCalls(ids) ==
    /\ mode = "lifecycle"
    /\ ids # {}
    /\ ids \subseteq DOMAIN lc_candidates
    /\ ids \cap lc_inflight = {}
    /\ StartCalls(ids)
    /\ UNCHANGED notLifecycle
    /\ UNCHANGED <<mode, lc_unsaved>>

\* the answer to POST /call: the row becomes "ringing", or "failed" on HTTPError
LcCallAnswered(id, ok) ==
    /\ mode = "lifecycle"
    /\ id \in lc_inflight
    /\ lc_candidates' = [lc_candidates EXCEPT ![id] =
          update_vapi_call(@, IF ok THEN "ringing" ELSE "failed")]
    /\ lc_inflight' = lc_inflight \ {id}
    /\ UNCHANGED notLifecycle
    /\ UNCHANGED <<mode, lc_posted, lc_unsaved>>

\* VapiService.update_candidate_from_webhook for a payload whose metadata
\* names candidate id
LcWebhook(id, msg) ==
    /\ mode = "lifecycle"
    /\ id \in DOMAIN lc_candidates
    /\ parse_webhook_payload(msg) # ""
    /\ lc_candidates' = [lc_candidates EXCEPT ![id] =
          update_vapi_call(@, parse_webhook_payload(msg))]
    /\ UNCHANGED notLifecycle
    /\ UNCHANGED <<mode, lc_inflight, lc_posted, lc_unsaved>>

\* LocationCandidateRepository.approve, as approve_location calls it once the
\* row is found
LcApprove(id) ==
    /\ mode = "lifecycle"
    /\ id \in DOMAIN lc_candidates
    /\ lc_candidates[id].stored
    /\ lc_candidates' = [lc_candidates EXCEPT ![id] = update_status(@, "approved")]
    /\ UNCHANGED notLifecycle
    /\ UNCHANGED <<mode, lc_inflight, lc_posted, lc_unsaved>>

\* LocationCandidateRepository.reject, as reject_location calls it once the row
\* is found
LcReject(id) ==
    /\ mode = "lifecycle"
    /\ id \in DOMAIN lc_candidates
    /\ lc_candidates[id].stored
    /\ lc_candidates' = [lc_candidates EXCEPT ![id] = update_status(@, "rejected")]
    /\ UNCHANGED notLifecycle
    /\ UNCHANGED <<mode, lc_inflight, lc_posted, lc_unsaved>>

NextLifecycle ==
    \/ \E venue \in RawVenues : LcParseResponse(venue)
    \/ \E id \in 1..MaxCandidates : LcCreateMany(id)
    \/ \E phone_number \in BOOLEAN : LcCreateLocation(phone_number)
    \/ \E id \in 1..MaxCandidates : LcTriggerCall(id)
    \/ \E ids \in SUBSET (1..MaxCandidates) : LcTriggerBatchCalls(ids)
    \/ \E id \in 1..MaxCandidates : \E ok \in BOOLEAN : LcCallAnswered(id, ok)
    \/ \E id \in 1..MaxCandidates : \E msg \in WebhookMessages : LcWebhook(id, msg)
    \/ \E id \in 1..MaxCandidates : LcApprove(id)
    \/ \E id \in 1..MaxCandidates : LcReject(id)

---------------------------------------------------------------------------
(* One row of location_candidates under the handlers that write it once it is
   stored: VapiService.trigger_call, VapiService.update_candidate_from_webhook
   and the repository's approve and reject.  The row carries the columns these
   handlers write; a timestamp or call id of 0 and a call_summary of 0 stand
   for NULL, approved_by and rejection_reason record whether the column is
   set. *)

\* class VapiCallStatus
VapiCallStatus ==
    {"not_initiated", "queued", "ringing", "in_progress", "completed",
     "voicemail", "no_answer", "busy", "failed", "no_phone_number"}

\* the row LocationCandidateRepository._candidate_to_dict writes for a candidate
_candidate_to_dict(c) ==
    [phone_number |-> c.phone_number, status |-> c.status,
     vapi_call_status |-> c.vapi_call_status, red_flags |-> c.red_flags,
     vapi_call_id |-> 0, vapi_call_initiated_at |-> 0,
     vapi_call_completed_at |-> 0, call_summary |-> 0,
     approved_by |-> FALSE, approved_at |-> 0, rejection_reason |-> FALSE]

\* the row create_location inserts
create_location(phone_number) ==
    [phone_number |-> phone_number, status |-> "discovered",
     vapi_call_status |-> "not_initiated", red_flags |-> <<>>,
     vapi_call_id |-> 0, vapi_call_initiated_at |-> 0,
     vapi_call_completed_at |-> 0, call_summary |-> 0,
     approved_by |-> FALSE, approved_at |-> 0, rejection_reason |-> FALSE]

\* the rows the table can hold before any call or review: one written for a
\* parsed candidate, or one inserted by create_location
RowsInTable ==
    { _candidate_to_dict(ParseCandidate(v, ReqId(1))) : v \in RawVenues }
    \cup { create_location(p) : p \in BOOLEAN }

\* message.status of the status-update webhooks sent for the row
VapiStatuses == {"ringing", "in-progress", "forwarding", "ended"}

\* the webhook payloads: message.type, message.status, call.id and
\* call.metadata.candidate_id, which names this row ("this"), names another
\* row ("other") or is absent ("")
WebhookPayloads ==
    { [type |-> "status-update", status |-> st, call_id |-> 0,
       candidate_id |-> "this"] : st \in VapiStatuses }
    \cup { [type |-> "end-of-call-report", status |-> "", call_id |-> n,
            candidate_id |-> "this"] : n \in 1..MaxCalls }
    \cup { [type |-> "status-update", status |-> "ended", call_id |-> 0,
            candidate_id |-> "other"],
           [type |-> "end-of-call-report", status |-> "", call_id |-> 1,
            candidate_id |-> ""],
           [type |-> "transcript", status |-> "", call_id |-> 0,
            candidate_id |-> "this"] }

\* what extract_structured_data finds as call_summary: nothing (None) or a text
Extractions == {0, 1}

\* _parse_status_update
_parse_status_update(msg) ==
    [candidate_id |-> msg.candidate_id,
     vapi_call_status |-> status_map(msg.status)]

\* _parse_end_of_call_report at time now, with what the extraction returned
_parse_end_of_call_report(msg, now, extracted) ==
    [candidate_id |-> msg.candidate_id,
     vapi_call_id |-> msg.call_id,
     vapi_call_status |-> "completed",
     vapi_call_completed_at |-> now,
     red_flags |-> <<>>,
     call_summary |-> extracted]

\* update_data of update_candidate_from_webhook: parsed without candidate_id
\* and without the values that are None (call_summary is the one that can be)
update_data(parsed) ==
    [k \in {f \in DOMAIN parsed \ {"candidate_id"} :
                f = "call_summary" => parsed[f] # 0} |-> parsed[k]]

\* update writing a whole row: the columns not given fall back to their
\* values at insertion
update_replaces_row(r, data) ==
    [f \in DOMAIN r |->
        IF f \in DOMAIN data THEN data[f] ELSE create_location(r.phone_number)[f]]

\* LocationCandidateRepository.update on the row: an UPDATE of the columns
\* given, the others keep their values
update(r, data) ==
    [f \in DOMAIN r |-> IF f \in DOMAIN data THEN data[f] ELSE r[f]]

\* LocationCandidateRepository.approve and reject
approve(r, now) ==
    update(r, [status |-> "approved", approved_by |-> TRUE, approved_at |-> now])

reject(r) ==
    update(r, [status |-> "rejected", rejection_reason |-> TRUE])

\* update_candidate_from_webhook: the row afterwards
update_candidate_from_webhook(r, msg, now, extracted) ==
    IF msg.type \notin {"status-update", "end-of-call-report"} THEN r
    ELSE LET parsed == IF msg.type = "end-of-call-report"
                       THEN _parse_end_of_call_report(msg, now, extracted)
                       ELSE _parse_status_update(msg)
         IN  IF parsed.candidate_id = "this" THEN update(r, update_data(parsed))
             ELSE r

\* how the request POST /call of trigger_call ends: the call is created, the
\* request fails with an httpx.HTTPError (transport error or error status), or
\* it fails otherwise (a body that is not the JSON object expected)
PostOutcomes == {"created", "http_error", "other_error"}

NoPayload == [type |-> "", status |-> "", call_id |-> 0, candidate_id |-> ""]

\* the handler that ran last: its name, its payload or call number and
\* outcome, and a bit that every handler run flips
Ran(op, msg, call, outcome) ==
    [op |-> op, msg |-> msg, call |-> call, outcome |-> outcome,
     flip |-> ~cand_last.flip]

InitRow ==
    /\ mode = "row"
    /\ cand_row \in RowsInTable
    /\ cand_now = 1
    /\ cand_posts = 0
    /\ cand_pending = {}
    /\ cand_last = [op |-> "", msg |-> NoPayload, call |-> 0, outcome |-> "",
                    flip |-> FALSE]

IdleRow ==
    /\ cand_row = create_location(FALSE)
    /\ cand_now = 1
    /\ cand_posts = 0
    /\ cand_pending = {}
    /\ cand_last = [op |-> "", msg |-> NoPayload, call |-> 0, outcome |-> "",
                    flip |-> FALSE]

\* time passes
RowTick ==
    /\ mode = "row"
    /\ cand_now < MaxClock
    /\ cand_now' = cand_now + 1
    /\ UNCHANGED notRow
    /\ UNCHANGED <<mode, cand_row, cand_posts, cand_pending, cand_last>>

\* trigger_call up to its await of POST /call: to_vapi_call_payload raises
\* ValueError for a row without phone number; otherwise the row becomes
\* "queued" and the request is sent
RowTriggerCall ==
    /\ mode = "row"
    /\ cand_posts < MaxCalls
    /\ IF cand_row.phone_number
       THEN /\ cand_row' = update(cand_row,
                              [vapi_call_status |-> "queued",
                               vapi_call_initiated_at |-> cand_now,
                               phone_number |-> TRUE])
            /\ cand_posts' = cand_posts + 1
            /\ cand_pending' = cand_pending \cup {cand_posts + 1}
            /\ cand_last' = Ran("trigger_call", NoPayload, cand_posts + 1, "sent")
       ELSE /\ cand_last' = Ran("trigger_call", NoPayload, 0, "ValueError")
            /\ UNCHANGED <<cand_row, cand_posts, cand_pending>>
    /\ UNCHANGED notRow
    /\ UNCHANGED <<mode, cand_now>>

\* trigger_call from the answer to its request to its return or raise
RowCallAnswered(n, outcome) ==
    /\ mode = "row"
    /\ n \in cand_pending
    /\ cand_row' =
          IF outcome = "created"
          THEN update(cand_row, [vapi_call_status |-> "ringing", vapi_call_id |-> n])
          ELSE IF outcome = "http_error"
          THEN update(cand_row, [vapi_call_status |-> "failed"])
          ELSE cand_row
    /\ cand_pending' = cand_pending \ {n}
    /\ cand_last' = Ran("trigger_call", NoPayload, n, outcome)
    /\ UNCHANGED notRow
    /\ UNCHANGED <<mode, cand_now, cand_posts>>

\* POST /webhooks/vapi with payload msg; only an end-of-call-report runs the
\* extraction
RowWebhook(msg, extracted) ==
    /\ mode = "row"
    /\ msg.type # "end-of-call-report" => extracted = 0
    /\ cand_row' = update_candidate_from_webhook(cand_row, msg, cand_now, extracted)
    /\ cand_last' = Ran("webhook", msg, 0, "")
    /\ UNCHANGED notRow
    /\ UNCHANGED <<mode, cand_now, cand_posts, cand_pending>>

\* approve_location
RowApprove ==
    /\ mode = "row"
    /\ cand_row' = approve(cand_row, cand_now)
    /\ cand_last' = Ran("approve", NoPayload, 0, "")
    /\ UNCHANGED notRow
    /\ UNCHANGED <<mode, cand_now, cand_posts, cand_pending>>

\* reject_location
RowReject ==
    /\ mode = "row"
    /\ cand_row' = reject(cand_row)
    /\ cand_last' = Ran("reject", NoPayload, 0, "")
    /\ UNCHANGED notRow
    /\ UNCHANGED <<mode, cand_now, cand_posts, cand_pending>>

NextRow ==
    \/ RowTick
    \/ RowTriggerCall
    \/ \E n \in 1..MaxCalls : \E outcome \in PostOutcomes : RowCallAnswered(n, outcome)
    \/ \E msg \in WebhookPayloads : \E extracted \in Extractions :
           RowWebhook(msg, extracted)
    \/ RowApprove
    \/ RowReject

---------------------------------------------------------------------------
(* One entry point per behaviour *)

Init ==
    \/ InitPool /\ IdleStream /\ IdleLlm /\ IdleDedup /\ IdleNorm /\ IdleScore /\ IdleVerify /\ IdleLifecycle /\ IdleRow
    \/ InitStream /\ IdlePool /\ IdleLlm /\ IdleDedup /\ IdleNorm /\ IdleScore /\ IdleVerify /\ IdleLifecycle /\ IdleRow
    \/ InitLlm /\ IdlePool /\ IdleStream /\ IdleDedup /\ IdleNorm /\ IdleScore /\ IdleVerify /\ IdleLifecycle /\ IdleRow
    \/ InitDedup /\ IdlePool /\ IdleStream /\ IdleLlm /\ IdleNorm /\ IdleScore /\ IdleVerify /\ IdleLifecycle /\ IdleRow
    \/ InitNorm /\ IdlePool /\ IdleStream /\ IdleLlm /\ IdleDedup /\ IdleScore /\ IdleVerify /\ IdleLifecycle /\ IdleRow
    \/ InitScore /\ IdlePool /\ IdleStream /\ IdleLlm /\ IdleDedup /\ IdleNorm /\ IdleVerify /\ IdleLifecycle /\ IdleRow
    \/ InitVerify /\ IdlePool /\ IdleStream /\ IdleLlm /\ IdleDedup /\ IdleNorm /\ IdleScore /\ IdleLifecycle /\ IdleRow
    \/ InitLifecycle /\ IdlePool /\ IdleStream /\ IdleLlm /\ IdleDedup /\ IdleNorm /\ IdleScore /\ IdleVerify /\ IdleRow
    \/ InitRow /\ IdlePool /\ IdleStream /\ IdleLlm /\ IdleDedup /\ IdleNorm /\ IdleScore /\ IdleVerify /\ IdleLifecycle

Next == NextPool \/ NextStream \/ NextLlm \/ NextDedup \/ NextNorm \/ NextScore \/ NextVerify \/ NextLifecycle \/ NextRow

Spec == Init /\ [][Next]_vars

\* ground_scenes_stream alone, consumed to the end by a client that never
\* disconnects; the event loop runs every task that can run and every external
\* call returns or raises
NextStreamRun == WorkerStep \/ ConsumerStep

InitStreamRun == InitStream /\ IdlePool /\ IdleLlm /\ IdleDedup /\ IdleNorm /\ IdleScore /\ IdleVerify /\ IdleLifecycle /\ IdleRow

FairStreamSpec ==
    /\ InitStreamRun
    /\ [][NextStreamRun]_vars
    /\ WF_vars(NextStreamRun)

---------------------------------------------------------------------------
(* Helpers of the properties *)

Last(s) == s[Len(s)]

Occurrences(s, x) == Cardinality({i \in 1..Len(s) : s[i] = x})

Positions(s, type, sid) == {i \in 1..Len(s) : s[i].type = type /\ s[i].scene_id = sid}

TerminalPositions(s, sid) == {i \in 1..Len(s) : IsTerminal(s[i]) /\ s[i].scene_id = sid}

IsProgress(e) == e.type = "progress"

ProgressOf(s) == SelectSeq(s, IsProgress)

\* the progress events count 1, 2, 3, ... and stay within the total they carry
CountsUpByOne(s) ==
    \A i \in 1..Len(ProgressOf(s)) :
        ProgressOf(s)[i].n = i /\ ProgressOf(s)[i].n <= ProgressOf(s)[i].m

VenueNames(venues) == {venues[i].venue_name : i \in 1..Len(venues)}

---------------------------------------------------------------------------
(* C1: process_scenes returns exactly one GroundingResult per requirement, in
   the order of the requirements and carrying their ids; a requirement whose
   external call raised has a non-empty errors list and no candidates, every
   other one has exactly the candidates its own call returned. *)
C1_OneResultPerRequirement ==
    pool_pc = "returned" =>
        /\ Len(final_results) = Len(requirements)
        /\ \A i \in 1..Len(requirements) :
              /\ final_results[i].scene_id = requirements[i]
              /\ returned[i].kind = "raise" =>
                    /\ final_results[i].errors # <<>>
                    /\ final_results[i].candidates = <<>>
              /\ returned[i].kind # "raise" =>
                    /\ Len(final_results[i].candidates) = Len(returned[i].venues)
                    /\ VenueNames(final_results[i].candidates) = VenueNames(returned[i].venues)
                    /\ \A k \in 1..Len(final_results[i].candidates) :
                          final_results[i].candidates[k].scene_id = requirements[i]

\* a batch run one at a time in which one call raised and another found two venues
C1_Witness ==
    /\ pool_pc = "returned"
    /\ max_concurrent = 1
    /\ Len(requirements) >= 2
    /\ \E i \in 1..Len(requirements) : returned[i].kind = "raise"
    /\ \E i \in 1..Len(requirements) : Len(final_results[i].candidates) = 2

(* C2: never more than max_concurrent requirements inside
   _process_single_scene, never more than max_concurrent locations inside
   analyze_location_with_llm, never more than min(parallel_workers, number of
   scenes, 10) scenes being grounded by the stream's workers. *)
C2_BoundedInFlight ==
    /\ Cardinality(InsideProcessSingleScene) <= max_concurrent
    /\ Cardinality(Analyzing) <= llm_max_concurrent
    /\ Cardinality(Grounding) <= Min3(parallel_workers, Len(scene_ids), WorkerCap)

\* the pool is full while another requirement waits for a permit
C2_Witness ==
    /\ mode = "pool"
    /\ Cardinality(InsideProcessSingleScene) = max_concurrent
    /\ \E i \in DOMAIN task : task[i].pc = "waiting"

(* C3: when the stream of ground_scenes_stream has ended, every entry of
   request.scene_ids has exactly one terminal event (scene_complete or error)
   in it, after that scene's scene_start and candidate events and before the
   complete event. *)
C3_OneTerminalPerScene ==
    stream_pc = "done" =>
        \A sid \in Range(scene_ids) :
            /\ Cardinality(TerminalPositions(events, sid)) = Occurrences(scene_ids, sid)
            /\ \A t \in TerminalPositions(events, sid) :
                  /\ t < Len(events)
                  /\ \A j \in Positions(events, "scene_start", sid)
                              \cup Positions(events, "candidate", sid) :
                        Cardinality(TerminalPositions(events, sid)) = 1 => j < t

(* C4: consumed to the end, the stream of ground_scenes_stream reaches its
   end; exactly one complete event is emitted, as the last event and with
   every worker task finished; for an empty request it follows the initial
   status event directly and reports 0 scenes and 0 candidates. *)
C4_CompleteIsLast ==
    /\ stream_pc = "done" =>
          /\ events # <<>>
          /\ Last(events).type = "complete"
          /\ Cardinality({i \in 1..Len(events) : events[i].type = "complete"}) = 1
          /\ \A w \in DOMAIN workers : workers[w].pc = "done"
    /\ stream_pc # "done" =>
          \A i \in 1..Len(events) : events[i].type # "complete"
    /\ (stream_pc = "done" /\ scene_ids = <<>>) =>
          events = << Event("status", NoScene, 0, 0), Event("complete", NoScene, 0, 0) >>

C4_StreamCompletes == <>(stream_pc = "done") /\ []C4_CompleteIsLast

\* a two-scene request served by two workers has been streamed to its end
C4_Witness ==
    /\ stream_pc = "done"
    /\ Len(scene_ids) = 2
    /\ Len(workers) = 2
    /\ \E i \in 1..Len(events) : events[i].type = "scene_complete"

(* C5: when the stream has ended, every scene whose external find-candidates
   call raised has an error event in the stream (the scene_complete payload
   has no errors entry that could carry it). *)
C5_FailureReportedAsError ==
    stream_pc = "done" =>
        \A sid \in call_failed :
            \E i \in 1..Len(events) : events[i].type = "error" /\ events[i].scene_id = sid

(* C6: in both streams the progress events count up by exactly one from 1 and
   never pass the total, and the counters move only in a step of the single
   consumer that takes a terminal entry off the result queue, never in a step
   of a worker. *)
C6_ProgressCounts ==
    /\ CountsUpByOne(events)
    /\ CountsUpByOne(script_events)

C6_SingleWriter ==
    /\ processed_count' # processed_count =>
          /\ processed_count' = processed_count + 1
          /\ stream_pc = "loop"
          /\ workers' = workers
          /\ result_queue # <<>> /\ result_queue' = Tail(result_queue)
          /\ IsTerminal(Head(result_queue))
    /\ script_processed' # script_processed =>
          /\ script_processed' = script_processed + 1
          /\ llm_pc = "loop"
          /\ llm_task' = llm_task
          /\ llm_queue # <<>> /\ llm_queue' = Tail(llm_queue)

C6_ProgressByConsumerOnly == []C6_ProgressCounts /\ [][C6_SingleWriter]_vars

\* the second progress event of a grounding stream has been emitted
C6_Witness ==
    /\ mode = "stream"
    /\ Len(ProgressOf(events)) = 2
    /\ processed_count = 2

(* C7: once the caller has stopped consuming the stream, no unit of work that
   had not started is started: no worker takes a scene to ground, no location
   enters analyze_location_with_llm. *)
C7_NoStartAfterAbort ==
    /\ stream_pc = "closed" => Grounding' \subseteq Grounding
    /\ llm_pc = "closed" => Analyzing' \subseteq Analyzing

C7_AbortStopsNewWork == [][C7_NoStartAfterAbort]_vars

\* every page some location of locs lists
PageUnion(locs) == UNION {Range(locs[i].page_numbers) : i \in 1..Len(locs)}

\* the input locations merged into loc: each occurrence carries the context of
\* the input location it came from
Members(loc) == {loc.occurrences[k].context : k \in 1..Len(loc.occurrences)}

\* the common value of vals, or "both" if there are several
Widened(vals) == IF Cardinality(vals) = 1 THEN CHOOSE v \in vals : TRUE ELSE "both"

(* C8: every pass of deduplicate_locations_with_llm (pre-merge, name pass,
   context pass, type pass) hands on at most as many locations as it was given,
   whatever the input list and the answers of the model calls, so the list
   returned is never longer than the list given. *)
C8_PassNeverGrows == Len(locations') <= Len(locations)

C8_DedupNeverGrows ==
    /\ [](Len(locations) <= Len(input_locations))
    /\ [][C8_PassNeverGrows]_vars

\* a run in which the name pass merged by the model's answer and the type pass
\* merged again, down to one location out of three
C8_Witness ==
    /\ dedup_pc = "done"
    /\ Len(input_locations) = MaxDedup
    /\ Len(locations) = 1
    /\ Cardinality({_normalize_header_for_matching(input_locations[i].scene_header) :
                       i \in 1..Len(input_locations)}) = MaxDedup

(* C9: after every pass, and so in the list returned, the union of the
   page_numbers of the locations is the union of the page_numbers of the input
   locations, whatever the model calls answer, failures included: no page is
   dropped and none is invented. *)
C9_PagesPreserved == PageUnion(locations) = PageUnion(input_locations)

\* a returned location that lists the pages of several input locations which
\* shared pages
C9_Witness ==
    /\ dedup_pc = "done"
    /\ \E i \in 1..Len(locations) :
          /\ Cardinality(Members(locations[i])) >= 2
          /\ Len(locations[i].page_numbers) < Len(locations[i].occurrences)
          /\ Len(locations[i].page_numbers) >= 3

(* C10: whenever a pass has merged a group of locations, the survivor's
   time_of_day is the members' common value if they all agree and "both"
   otherwise, and likewise its interior_exterior, in whatever order the members
   were merged. *)
C10_MergedFieldsWidened ==
    \A i \in 1..Len(locations) :
        Cardinality(Members(locations[i])) >= 2 =>
            /\ locations[i].time_of_day =
                 Widened({input_locations[m].time_of_day : m \in Members(locations[i])})
            /\ locations[i].interior_exterior =
                 Widened({input_locations[m].interior_exterior : m \in Members(locations[i])})

FailedCall(call) == call.kind \in {"raise", "unparsable"}

(* C11: if the call of the name pass or of the context pass raises or answers
   with text that cannot be parsed, that pass leaves the list exactly as it
   received it and hands over to the next pass; the run then ends with the list
   the remaining passes make of it instead of raising. *)
C11_FailedPassKeepsList ==
    (Len(dedup_calls') > Len(dedup_calls) /\ FailedCall(Last(dedup_calls'))) =>
        /\ locations' = locations
        /\ dedup_pc' = IF Last(dedup_calls').pass = 1 THEN "context" ELSE "type"

C11_FailedRunReturns ==
    (dedup_pc = "done" /\ dedup_calls # <<>> /\ FailedCall(dedup_calls[1])) =>
        locations = _merge_by_location_type(_pre_merge_obvious_duplicates(input_locations))

C11_DedupDegrades ==
    /\ [][C11_FailedPassKeepsList]_vars
    /\ []C11_FailedRunReturns

\* a run whose name-pass answer could not be parsed and whose type pass still
\* merged two of the three locations given
C11_Witness ==
    /\ dedup_pc = "done"
    /\ dedup_calls # <<>>
    /\ dedup_calls[1].kind = "unparsable"
    /\ Len(input_locations) = MaxDedup
    /\ Len(locations) = 2

(* C12: _normalize_header_for_matching is idempotent: applied to the key of a
   header it gives that key again. *)
C12_NormalizerIdempotent == norm_pc = "done" => renormalized = normalized

\* the input locations whose header has the normalization key of input i
SameKeyAs(i) ==
    {m \in 1..Len(input_locations) :
        _normalize_header_for_matching(input_locations[m].scene_header) =
        _normalize_header_for_matching(input_locations[i].scene_header)}

\* every page some input location of the set lists
PagesOfInputs(set) == UNION {Range(input_locations[m].page_numbers) : m \in set}

\* the survivors that hold an input location of the set
Holders(set) == {j \in 1..Len(locations) : Members(locations[j]) \cap set # {}}

AfterPreMerge == dedup_pc \in {"name", "context", "type", "done"}

(* C13 as stated: input locations whose headers have one normalization key
   come out as exactly one location whose page_numbers are the union of those
   members' pages, whatever the order of the list and the answers of the
   calls. *)
C13_SameKeyOneLocationExactPages ==
    dedup_pc = "done" =>
        \A i \in 1..Len(input_locations) :
            Cardinality(SameKeyAs(i)) >= 2 =>
                /\ Cardinality(Holders(SameKeyAs(i))) = 1
                /\ \A j \in Holders(SameKeyAs(i)) :
                      Range(locations[j].page_numbers) = PagesOfInputs(SameKeyAs(i))

(* C13, amended: from the pre-merge on, input locations whose headers have one
   normalization key are held by exactly one location, which lists every page
   of theirs; its page_numbers are exactly the pages of the input locations
   merged into it, so they are the union of the members' pages when no location
   of another key was merged with them. *)
C13_SameKeyOneLocation ==
    AfterPreMerge =>
        \A i \in 1..Len(input_locations) :
            /\ Cardinality(Holders(SameKeyAs(i))) = 1
            /\ \A j \in Holders(SameKeyAs(i)) :
                  /\ SameKeyAs(i) \subseteq Members(locations[j])
                  /\ Range(locations[j].page_numbers) =
                       PagesOfInputs(Members(locations[j]))

\* a returned list in which two untyped locations of one key but different
\* headers are one location, and the third input is another
C13_Witness ==
    /\ dedup_pc = "done"
    /\ Len(input_locations) = MaxDedup
    /\ Len(locations) = 2
    /\ \E i \in 1..Len(input_locations) :
          /\ Cardinality(SameKeyAs(i)) = 2
          /\ _get_location_type(input_locations[i].scene_header) = ""
          /\ Cardinality({input_locations[m].scene_header : m \in SameKeyAs(i)}) = 2

\* the locations that carry a flagged header and hold the occurrences of more
\* than one input location
FlaggedWithSeveralGroups ==
    {i \in 1..Len(locations) :
        /\ locations[i].scene_header \in needs_context
        /\ Cardinality(Members(locations[i])) > 1}

(* C14: in the context pass, a header the name pass flagged and that more than
   one surviving group of occurrences carries is submitted to the second call
   (whose "same" merges the group and whose "different" leaves it as it is);
   locations whose header was not flagged are not changed by the pass. *)
C14_ContextStep ==
    (dedup_pc = "context" /\ dedup_pc' = "type") =>
        /\ FlaggedWithSeveralGroups # {} =>
              /\ Len(dedup_calls') = Len(dedup_calls) + 1
              /\ Last(dedup_calls').pass = 2
        /\ \A i \in 1..Len(locations) :
              locations[i].scene_header \notin needs_context =>
                  \E j \in 1..Len(locations') : locations'[j] = locations[i]

C14_FlaggedGroupsReviewed == [][C14_ContextStep]_vars

\* the locations of canonical type t
OfType(locs, t) == {i \in 1..Len(locs) : _get_location_type(locs[i].scene_header) = t}

\* interior_exterior of an interior location: "INT" as extract_unique_locations
\* writes it, "interior" as the analysis step does
IsInterior(ie) == ie \in {"INT", "interior"}

IsExterior(ie) == ie \in {"EXT", "exterior"}

(* C15: when the type pass merges two or more locations of one canonical type,
   the survivor's header is "INT. <TYPE>" if every merged location is interior,
   and "INT./EXT. <TYPE>" only if the merged locations span interior and
   exterior, for locations as the extraction step produces them. *)
C15_TypeStep ==
    (dedup_pc = "type" /\ dedup_pc' = "done") =>
        \A k \in 1..Len(MERGEABLE_LOCATION_TYPES) :
            LET t == MERGEABLE_LOCATION_TYPES[k]
                group == OfType(locations, t)
            IN  Cardinality(group) >= 2 =>
                  /\ (\A i \in group : IsInterior(locations[i].interior_exterior)) =>
                        \E j \in 1..Len(locations') :
                            locations'[j].scene_header = <<"INT.", " ", t>>
                  /\ (\E j \in 1..Len(locations') :
                            locations'[j].scene_header = <<"INT.", "/", "EXT.", " ", t>>) =>
                        \/ \E i \in group : locations[i].interior_exterior = "both"
                        \/ /\ \E i \in group : IsInterior(locations[i].interior_exterior)
                           /\ \E i \in group : IsExterior(locations[i].interior_exterior)

C15_TypeHeader == [][C15_TypeStep]_vars

\* b is a except that its rating or review count is higher or that it has a
\* phone number or a website that a lacks
RaisesOneInput(a, b) ==
    \/ b.google_rating > a.google_rating /\ b = [a EXCEPT !.google_rating = b.google_rating]
    \/ /\ b.google_review_count > a.google_review_count
       /\ b = [a EXCEPT !.google_review_count = b.google_review_count]
    \/ ~a.phone_number /\ b = [a EXCEPT !.phone_number = TRUE]
    \/ ~a.website_url /\ b = [a EXCEPT !.website_url = TRUE]

\* b is a with more red flags
MoreRedFlags(a, b) ==
    Len(b.red_flags) > Len(a.red_flags) /\ b = [a EXCEPT !.red_flags = b.red_flags]

(* C16: _calculate_match_score returns a value in [0,1] for every candidate,
   one with no phone, reasoning, rating and website included; the value does
   not fall when the rating or the review count rises or a phone number or a
   website is added, the rest fixed, and does not rise with more red flags. *)
C16_ScoreBoundedMonotone ==
    score_pc = "done" =>
        /\ score_value >= 0
        /\ score_value <= 1000
        /\ \A b \in ScoreInputs :
              /\ RaisesOneInput(score_candidate, b) =>
                    _calculate_match_score(b) >= score_value
              /\ MoreRedFlags(score_candidate, b) =>
                    _calculate_match_score(b) <= score_value

\* the candidate with no phone, no reasoning, no rating and no website, and
\* two red flags, has been scored: nothing adds to its score
C16_Witness ==
    /\ score_pc = "done"
    /\ ~score_candidate.phone_number
    /\ ~score_candidate.match_reasoning
    /\ ~score_candidate.website_url
    /\ score_candidate.google_rating = 0
    /\ score_candidate.google_review_count = 0
    /\ Len(score_candidate.red_flags) = 2
    /\ score_value = 0

---------------------------------------------------------------------------
CandidateNamed(cands, name) == CHOOSE c \in Range(cands) : c.venue_name = name

\* the provider returned a JSON verdict for a candidate that has a photo
ObtainsVisualScore(c, out) == c.photo /\ out.kind = "json"

(* C17: after one visual pass every candidate that obtained a visual score has
   match_score = 0.6 x its previous match_score + 0.4 x the visual score and
   its red_flags extended by the prefixed visual concerns; every candidate
   that obtained none has the match_score and red_flags it had; and the
   requirement has not failed. *)
C17_VisualBlendOnce ==
    fv_outcomes # <<>> =>
        /\ fv_pc # "raised"
        /\ Len(fv_verified) = Len(fv_candidates)
        /\ \A i \in 1..Len(fv_candidates) :
              LET before == fv_candidates[i]
                  out    == fv_outcomes[i]
                  after  == CandidateNamed(fv_verified, before.venue_name)
              IN  IF ObtainsVisualScore(before, out)
                  THEN /\ after.match_score
                             = (6 * before.match_score + 4 * out.score) \div 10
                       /\ Len(after.red_flags)
                             = Len(before.red_flags) + Len(out.concerns)
                       /\ SubSeq(after.red_flags, 1, Len(before.red_flags))
                             = before.red_flags
                  ELSE /\ after.match_score = before.match_score
                       /\ after.red_flags = before.red_flags

\* the position of a venue in the array the call returned
DiscoveryIndex(name) ==
    CHOOSE k \in 1..Len(fv_response.venues) : fv_response.venues[k].venue_name = name

OrderedByScoreThenDiscovery(cands) ==
    \A i, j \in 1..Len(cands) :
        i < j =>
            \/ cands[i].match_score > cands[j].match_score
            \/ /\ cands[i].match_score = cands[j].match_score
               /\ DiscoveryIndex(cands[i].venue_name)
                     < DiscoveryIndex(cands[j].venue_name)

(* C18: the candidate list find_locations leaves, and the list
   verify_candidates_visual returns, are in descending match_score order, and
   candidates with equal match_score are in the order the call listed them. *)
C18_OrderedByScore ==
    /\ fv_pc \in {"verify", "done", "raised"} =>
            OrderedByScoreThenDiscovery(fv_candidates)
    /\ fv_outcomes # <<>> => OrderedByScoreThenDiscovery(fv_verified)

\* the call listed the best venue last and two equally scored ones before it,
\* and the visual pass has returned its list
C18_Witness ==
    /\ fv_outcomes # <<>>
    /\ Len(fv_verified) = 3
    /\ fv_response.venues[3].venue_name = fv_verified[1].venue_name
    /\ fv_verified[2].match_score = fv_verified[3].match_score
    /\ fv_verified[1].match_score > fv_verified[2].match_score

---------------------------------------------------------------------------
NoPhone(c) == ~c.phone_number

\* the ids of the candidates a step creates
Created == (DOMAIN lc_candidates') \ (DOMAIN lc_candidates)

(* C19: a candidate without phone number is created in human_review with call
   status no_phone_number; it is never in call_pending or call_in_progress,
   its call status is never queued, ringing or in_progress, and no POST /call
   is ever sent for it. *)
C19_NoPhoneNeverCalled ==
    /\ [][\A id \in Created :
             NoPhone(lc_candidates'[id]) =>
                 /\ lc_candidates'[id].status = "human_review"
                 /\ lc_candidates'[id].vapi_call_status = "no_phone_number"]_vars
    /\ [](\A id \in DOMAIN lc_candidates :
             NoPhone(lc_candidates[id]) =>
                 /\ lc_candidates[id].status
                        \notin {"call_pending", "call_in_progress"}
                 /\ lc_candidates[id].vapi_call_status
                        \notin {"queued", "ringing", "in_progress"}
                 /\ id \notin lc_posted)

\* the edges of the lifecycle graph
LifecycleEdges ==
    { <<"discovered", "call_pending">>, <<"discovered", "human_review">>,
      <<"call_pending", "call_in_progress">>,
      <<"call_in_progress", "call_completed">>,
      <<"call_in_progress", "call_failed">>,
      <<"call_completed", "human_review">>, <<"call_failed", "human_review">>,
      <<"human_review", "approved">>, <<"human_review", "rejected">>,
      <<"call_completed", "approved">>, <<"call_completed", "rejected">>,
      <<"approved", "booked">> }

(* C20: every step that changes a candidate's status takes it along an edge of
   the lifecycle graph: approved and rejected are entered only from
   human_review or call_completed, rejected is never left, approved is left
   only to booked. *)
C20_StatusChangesAreEdges ==
    [][\A id \in DOMAIN lc_candidates :
          lc_candidates'[id].status # lc_candidates[id].status =>
              <<lc_candidates[id].status, lc_candidates'[id].status>>
                  \in LifecycleEdges]_vars

\* the location events of analyze_script's stream
LocationEvents ==
    {i \in DOMAIN script_events : script_events[i].type = "location"}

(* C24: when analyze_script's stream has ended, it carries one location item
   for every location given, a failed analysis included, and the total of its
   complete event is the number of locations given. *)
C24_OneItemPerLocation ==
    llm_pc = "done" =>
        /\ Cardinality(LocationEvents) = total_locations
        /\ script_events[Len(script_events)].n = total_locations

(* C27: when ground_scenes_stream has emitted its complete event, nothing that
   a worker put on the result queue is left on it: every such event was
   emitted before complete. *)
C27_QueueDrainedBeforeComplete ==
    stream_pc = "done" => result_queue = <<>>

(* C29: every candidate find_locations returns carries the match_score that
   _calculate_match_score gives for the candidate as returned, red_flags
   included. *)
C29_ScoreOfReturnedCandidate ==
    fv_pc # "find" =>
        \A i \in DOMAIN fv_candidates :
            fv_candidates[i].match_score = _calculate_match_score(fv_candidates[i])

\* the step is a run of update_candidate_from_webhook
WebhookStep == cand_last'.op = "webhook" /\ cand_last'.flip # cand_last.flip

\* the step applies the payload that the previous handler run applied
ReplayStep == WebhookStep /\ cand_last.op = "webhook" /\ cand_last'.msg = cand_last.msg

(* C21: applying the same call-outcome webhook (status-update or
   end-of-call-report) to the candidate a second time leaves its record as it
   was after the first application. *)
C21_ReplayChangesNothing == [][ReplayStep => cand_row' = cand_row]_vars

\* a is an initial segment of b
IsPrefix(a, b) == Len(a) <= Len(b) /\ SubSeq(b, 1, Len(a)) = a

(* C22: the candidate's red_flags list only grows: no step of a call trigger,
   a webhook, an approval or a rejection removes or replaces an entry that is
   on the list. *)
C22_RedFlagsOnlyGrow == [][IsPrefix(cand_row.red_flags, cand_row'.red_flags)]_vars

\* the step sends a POST /call request for the candidate
PostStep == cand_posts' > cand_posts

(* C25: a POST /call is sent only for a candidate that has a phone number and
   whose call status is not queued, ringing or in_progress, so that no two
   requests for the candidate are outstanding at once. *)
C25_CallOnlyWhenCallable ==
    /\ [][PostStep =>
             /\ cand_row.phone_number
             /\ cand_row.vapi_call_status \notin {"queued", "ringing", "in_progress"}]_vars
    /\ [](Cardinality(cand_pending) <= 1)

(* C26: a status-update webhook naming the candidate writes the member of
   VapiCallStatus that translates its status, an end-of-call-report naming the
   candidate writes completed, and a webhook naming another candidate or none
   leaves this candidate as it is. *)
C26_WebhookWritesEnumMember ==
    [][WebhookStep =>
          IF cand_last'.msg.candidate_id # "this" THEN cand_row' = cand_row
          ELSE IF cand_last'.msg.type = "status-update"
          THEN /\ cand_row'.vapi_call_status \in VapiCallStatus
               /\ cand_row'.vapi_call_status = status_map(cand_last'.msg.status)
          ELSE IF cand_last'.msg.type = "end-of-call-report"
          THEN cand_row'.vapi_call_status = "completed"
          ELSE cand_row' = cand_row]_vars

\* the call statuses after which the call is over
TerminalCallStatuses == {"completed", "failed", "no_answer", "busy", "voicemail"}

(* C28: once the candidate's call status is terminal, no status-update webhook
   moves it back to queued, ringing or in_progress. *)
C28_TerminalStaysTerminal ==
    [][(WebhookStep /\ cand_last'.msg.type = "status-update"
           /\ cand_row.vapi_call_status \in TerminalCallStatuses) =>
          cand_row'.vapi_call_status \notin {"queued", "ringing", "in_progress"}]_vars

\* the step is the return or raise of a trigger_call that sent its request
TriggerCallFinished ==
    /\ cand_last'.op = "trigger_call"
    /\ cand_last'.flip # cand_last.flip
    /\ cand_last'.outcome \in PostOutcomes

(* C30: when trigger_call has finished, by returning or by raising, the
   candidate's call status is ringing with the call id stored if the call was
   created and failed otherwise; it is not left at queued. *)
C30_TriggerCallSettlesStatus ==
    [][TriggerCallFinished =>
          IF cand_last'.outcome = "created"
          THEN /\ cand_row'.vapi_call_status = "ringing"
               /\ cand_row'.vapi_call_id = cand_last'.call
          ELSE cand_row'.vapi_call_status = "failed"]_vars

\* the columns approve and reject write
ReviewColumns == {"status", "approved_by", "approved_at", "rejection_reason"}

\* the row restricted to some of its columns
Columns(r, cols) == [f \in cols |-> r[f]]

\* the step is a run of approve or reject
ReviewStep ==
    cand_last'.op \in {"approve", "reject"} /\ cand_last'.flip # cand_last.flip

(* C23: in either order of a call-status webhook and a review action (approve
   or reject) on the candidate, the record afterwards holds the effect of
   both: the review action keeps every column the webhook wrote and the webhook
   keeps every column the review action wrote. *)
C23_WebhookAndReviewBothKept ==
    [][/\ (ReviewStep /\ cand_last.op = "webhook") =>
            /\ Columns(cand_row', DOMAIN cand_row \ ReviewColumns)
                   = Columns(cand_row, DOMAIN cand_row \ ReviewColumns)
            /\ cand_row'.status
                   = IF cand_last'.op = "approve" THEN "approved" ELSE "rejected"
            /\ cand_last'.op = "approve" => cand_row'.approved_by
            /\ cand_last'.op = "reject" => cand_row'.rejection_reason
       /\ (WebhookStep /\ cand_last.op \in {"approve", "reject"}) =>
            /\ Columns(cand_row', ReviewColumns) = Columns(cand_row, ReviewColumns)
            /\ (cand_last'.msg.candidate_id = "this"
                  /\ cand_last'.msg.type = "end-of-call-report") =>
                   /\ cand_row'.vapi_call_status = "completed"
                   /\ cand_row'.vapi_call_id = cand_last'.msg.call_id
                   /\ cand_row'.vapi_call_completed_at = cand_now
            /\ (cand_last'.msg.candidate_id = "this"
                  /\ cand_last'.msg.type = "status-update") =>
                   cand_row'.vapi_call_status = status_map(cand_last'.msg.status)]_vars

\* an approval has followed an end-of-call-report and a status-update has
\* followed a rejection
C23_Witness ==
    /\ cand_last.op = "webhook"
    /\ cand_last.msg.type = "status-update"
    /\ cand_last.msg.candidate_id = "this"
    /\ cand_row.status = "rejected"
    /\ cand_row.approved_by
    /\ cand_row.vapi_call_completed_at > 0
    /\ cand_row.red_flags = <<>>
    /\ cand_row.vapi_call_status = "in_progress"

=============================================================================
